---- MODULE Spec2Model ----
(***************************************************************************)
(* Instance lifecycle and reconciliation engine of vLLM Manager.           *)
(*                                                                         *)
(* The Store is the SQLite file with the tables instances,                 *)
(* ollama_instances, ollama_models and allocated_ports; the daemon is the  *)
(* Docker engine.                                                          *)
(* Every HTTP handler is an async function: it runs atomically between two *)
(* awaits, so a handler is a sequence of steps (one per awaited call) and  *)
(* a request in flight is a slot holding the handler's position (pc) and   *)
(* its local variables.                                                    *)
(***************************************************************************)
EXTENDS Integers, FiniteSets, Sequences, TLC

\* ------------------------------------------------------------------ bounds
PortRange == 2      \* number of ports in [MIN_PORT, MAX_PORT] (1000 in the source)
MaxIds    == 2      \* uuids handed out by uuidv4() / used by foreign containers
MaxCids   == 2      \* container ids the daemon hands out
NSlots    == 2      \* requests that can be in flight at once
MaxFaults == 1      \* injected daemon / database errors per behaviour
MaxGpus   == 2      \* GPUs nvidia-smi can list
MaxFree   == 2      \* levels of memory.free nvidia-smi can report
MaxFrames == 2
MaxTensor == 3      \* values of tensorParallelSize a create is called with
MaxNameLen == 3     \* characters of the instance names a container name is built from
MaxModels == 1      \* model names pulled to an Ollama instance

\* --------------------------------------------------------------- constants
MIN_PORT == 8001
MAX_PORT == MIN_PORT + PortRange - 1

PortSet == MIN_PORT..MAX_PORT
Ids     == 1..MaxIds
Cids    == 1..MaxCids
Slots   == 1..NSlots
Names   == {"a", "b"}

Free == 0           \* no row for this port in allocated_ports
None == 0           \* NULL / undefined
Unknown == -1       \* memoryFree: 'Unknown' of the basic detection

\* the index column of nvidia-smi, as the strings the code keeps
GpuName == <<"0", "1", "2", "3">>
NoSuchGpu == "9"

\* the model names a pull is called with
ModelName == <<"m1", "m2", "m3">>
ModelNames == {ModelName[k] : k \in 1..MaxModels}

\* the seeded settings default_api_key and default_gpu_selection
DefaultApiKey == "localkey"
DefaultGpuSelection == "auto"

VARIABLES
  instances,   \* table instances:        id -> row
  ollama,      \* table ollama_instances: id -> row
  ports,       \* table allocated_ports:  port -> instance_id (Free: no row)
  containers,  \* the daemon's containers: container id -> container
  nextId,      \* next value uuidv4() returns
  nextCid,     \* next container id the daemon hands out
  faults,      \* injected errors so far
  req,         \* the requests in flight: slot -> handler position and locals
  models,      \* table ollama_models: instance_id -> name -> status of the record
  gpuInfo,     \* GPUService.gpuInfo.gpus: the GPUs of the last detection
  initialized  \* GPUService.initialized

vars == <<instances, ollama, ports, containers, nextId, nextCid, faults, req,
          models, gpuInfo, initialized>>

\* what the handlers of the instance routes and the allocator never write
others == <<models, gpuInfo, initialized>>

\* ------------------------------------------------------------------ rows
\* a row of instances / ollama_instances: name, api_key ("" is NULL),
\* gpu the column gpu_id (config.gpuId of an Ollama row, "" is NULL) and
\* imported the flag config.imported
NoRow  == [port |-> None, cid |-> None, status |-> "absent", name |-> "",
           key |-> "", gpu |-> "", imported |-> FALSE]

\* a container: cmdkey the value of --api-key in its command ("" when the
\* command has no such argument), gpu the device it was given ("" is none),
\* tp the value of --tensor-parallel-size in its command (0: no such argument)
NoCont == [kind |-> "none", name |-> "", uuid |-> None, port |-> None,
           running |-> FALSE, cmdkey |-> "", gpu |-> "", tp |-> 0]

Row(port, cid, status) ==
  [port |-> port, cid |-> cid, status |-> status, name |-> "",
   key |-> "", gpu |-> "", imported |-> FALSE]

\* the rows of ollama_models of one instance: "none" is no row
NoModels == [m \in ModelNames |-> "none"]

\* a slot: op the handler, pc its position, id / port / name the instance it
\* works on, cid the container it created or attached to, old the
\* container_id it read from the row, drv the outcome of its driver call,
\* made whether it created a container, todo / cur the orphans it imports,
\* seen the orphans it detected, f0 the errors injected before it began,
\* twice whether the caller repeats the request as soon as it is answered and
\* snap the daemon as the first request found it and the tables as the first
\* answer left them, pend the rows a listing has still to inspect, resp
\* the entries of its answer and up what the Ollama server would stream for
\* the pull, body the text of the stream that has not arrived yet, got the
\* records onProgress was called with, final whether finalStatus is set,
\* threw whether onProgress threw and cut whether a chunk ended inside a
\* record, parts the name and the uuid a container name is built from, text
\* that container name and parsed what parseContainerName made of it, wrote
\* the columns its UPDATE statement has set, tps the tensorParallelSize of
\* the request, info the GPUs getGPUInfo or refreshGPUInfo returned
\* what the Ollama server streams for a pull: the status of its progress
\* records, and whether the stream then ends or breaks with an error
NoStream == [frames |-> <<>>, ending |-> "end"]

Streams ==
  {[frames |-> f, ending |-> e] :
     f \in UNION {[1..n -> {"pulling", "success"}] : n \in 0..MaxFrames},
     e \in {"end", "error"}}

\* an entry of the answer of a listing: the row's container_id with the
\* status and the flag running the handler puts over it ("none": no entry)
NoEntry == [cid |-> None, status |-> "none", running |-> FALSE]

\* what parseContainerName returns, as characters; null is NoParts
NoParts == [instanceName |-> <<>>, uuid |-> <<>>]

NoSnap == [instances |-> <<>>, ports |-> <<>>, containers |-> <<>>, nextCid |-> 0]

Idle == [op |-> "idle", pc |-> "idle", id |-> None, port |-> None, cid |-> None,
         old |-> None, cur |-> None, name |-> "", res |-> "none", drv |-> "none",
         made |-> FALSE, full |-> FALSE, todo |-> {}, auto |-> FALSE,
         model |-> "", auth |-> TRUE, key |-> "", pref |-> "auto", gpu |-> "",
         seen |-> {}, f0 |-> 0, twice |-> FALSE, snap |-> NoSnap,
         pend |-> {}, resp |-> [i \in Ids |-> NoEntry], up |-> NoStream,
         body |-> <<>>, got |-> <<>>, final |-> FALSE, threw |-> FALSE,
         cut |-> FALSE, parts |-> NoParts, text |-> <<>>, parsed |-> NoParts,
         wrote |-> {}, tps |-> 1, info |-> <<>>]

Stored(table)   == {i \in Ids : table[i] # NoRow}
Reserved(tbl)   == {p \in PortSet : tbl[p] # Free}
Full(tbl)       == Reserved(tbl) = PortSet
InFlight        == {s \in Slots : req[s].pc \notin {"idle"}}
Quiescent       == \A s \in Slots : req[s].pc \in {"idle", "done"}

\* ------------------------------------------------------------ PortService
\* the while loop of allocatePort: the first port from p on that is not in
\* the rows read from allocated_ports, or MAX_PORT + 1
RECURSIVE ScanFrom(_, _)
ScanFrom(p, allocated) ==
  IF p <= MAX_PORT /\ p \in allocated THEN ScanFrom(p + 1, allocated) ELSE p

\* (variant: the loop stops one port early, "availablePort < MAX_PORT")
FirstAvailableClamped(allocated) ==
  LET c == ScanFrom(MIN_PORT, allocated) IN IF c > MAX_PORT THEN MAX_PORT ELSE c

FirstAvailable(allocated) == ScanFrom(MIN_PORT, allocated)

\* (variant: INSERT OR REPLACE, no primary key on port)
CanInsertPortReplace(tbl, p) == TRUE

\* INSERT INTO allocated_ports: port is the PRIMARY KEY, the insert is
\* rejected when a row for the port exists
CanInsertPort(tbl, p) == tbl[p] = Free

\* the exhaustion check of allocatePort
Exhausted(cand) == cand > MAX_PORT

\* history: a call in its allocatePort part notes when the table is full
Observe(rq, tbl) ==
  [s \in Slots |->
     IF rq[s].pc \in {"alloc_read", "alloc_insert"}
     THEN [rq[s] EXCEPT !.full = @ \/ Full(tbl)]
     ELSE rq[s]]

\* where a handler continues after allocatePort resolved
AfterAlloc(op) ==
  CASE op = "alloc"   -> "done"
    [] op = "vcreate" -> "docker_create"
    [] op = "ocreate" -> "ollama_list"
    [] OTHER          -> "done"

\* a handler ends: the response is sent
Finish(r, res) == [r EXCEPT !.pc = "done", !.res = res]

\* allocatePort, first part: SELECT port FROM allocated_ports, the scan and
\* the exhaustion check
AllocRead(s) ==
  /\ req[s].pc = "alloc_read"
  /\ LET cand == FirstAvailable(Reserved(ports)) IN
       req' = [req EXCEPT ![s] =
                 IF Exhausted(cand)
                 THEN Finish(req[s], "exhausted")
                 ELSE [req[s] EXCEPT !.pc = "alloc_insert", !.port = cand]]
  /\ UNCHANGED <<instances, ollama, ports, containers, nextId, nextCid, faults>>
  /\ UNCHANGED others

\* allocatePort, second part: the INSERT and its callback
AllocInsert(s) ==
  /\ req[s].pc = "alloc_insert"
  /\ IF CanInsertPort(ports, req[s].port)
     THEN /\ ports' = [ports EXCEPT ![req[s].port] = req[s].id]
          /\ req' = Observe([req EXCEPT ![s] =
                       IF AfterAlloc(req[s].op) = "done"
                       THEN Finish(req[s], "ok")
                       ELSE [req[s] EXCEPT !.pc = AfterAlloc(req[s].op)]], ports')
     ELSE /\ ports' = ports
          /\ req' = [req EXCEPT ![s] = Finish([req[s] EXCEPT !.port = None], "constraint")]
  /\ UNCHANGED <<instances, ollama, containers, nextId, nextCid, faults>>
  /\ UNCHANGED others

\* (variant: the DELETE is left out)
ReleasedPortsKept(tbl, p) == tbl

\* releasePort: DELETE FROM allocated_ports WHERE port = ?
ReleasedPorts(tbl, p) == [tbl EXCEPT ![p] = Free]

\* a direct call of allocatePort(instanceId)
AllocCall(s, id) ==
  /\ req[s].pc = "idle"
  /\ req' = [req EXCEPT ![s] = [Idle EXCEPT !.op = "alloc", !.pc = "alloc_read",
                                            !.id = id, !.full = Full(ports)]]
  /\ UNCHANGED <<instances, ollama, ports, containers, nextId, nextCid, faults>>
  /\ UNCHANGED others

\* a direct call of releasePort(port)
ReleaseCall(p) ==
  /\ ports[p] # Free
  /\ ports' = ReleasedPorts(ports, p)
  /\ UNCHANGED <<instances, ollama, containers, nextId, nextCid, faults, req>>
  /\ UNCHANGED others

\* the caller takes the result
Return(s) ==
  /\ req[s].pc = "done"
  /\ req' = [req EXCEPT ![s] = Idle]
  /\ UNCHANGED <<instances, ollama, ports, containers, nextId, nextCid, faults>>
  /\ UNCHANGED others

\* ------------------------------------------------------------ the daemon
Present(c) == containers[c] # NoCont

\* the host refuses to bind a port another running container already binds
HostPortBusy(c, p) ==
  \E d \in Cids : d # c /\ containers[d].running /\ containers[d].port = p

\* the daemon refuses a second container with the same name
NameTaken(kind, name, uuid) ==
  \E d \in Cids : /\ containers[d].kind = kind
                  /\ containers[d].name = name
                  /\ containers[d].uuid = uuid

CanFault == faults < MaxFaults

\* a new request is accepted: lim is the number of requests the
\* specification lets be in flight; the lowest idle slot takes it
CanBegin(s, lim) ==
  /\ req[s].pc = "idle"
  /\ \A t \in Slots : t < s => req[t].pc # "idle"
  /\ Cardinality(InFlight) < lim

\* ------------------------------------------------------------- GPUService
\* detectGPUs: the list nvidia-smi prints (in index order), else one entry
\* 'auto' of the basic detection, else no GPU
NvidiaInventories ==
  UNION {{[k \in 1..n |-> [id |-> GpuName[k], free |-> f[k]]] :
            f \in [1..n -> 1..MaxFree]} : n \in 1..MaxGpus}

BasicInventory == <<[id |-> "auto", free |-> Unknown]>>

Inventories == {<<>>, BasicInventory} \cup NvidiaInventories

HasGPU == Len(gpuInfo) > 0

\* getGPUUsage: rows of instances with status running and gpu_id not NULL,
\* counted per gpu_id, plus rows of ollama_instances with status running,
\* counted per config.gpuId || 'auto'
VllmUsage(g) ==
  Cardinality({i \in Ids : /\ instances[i] # NoRow
                           /\ instances[i].status = "running"
                           /\ instances[i].gpu # ""
                           /\ instances[i].gpu = g})

OllamaUsage(g) ==
  Cardinality({i \in Ids : /\ ollama[i] # NoRow
                           /\ ollama[i].status = "running"
                           /\ (IF ollama[i].gpu = "" THEN "auto" ELSE ollama[i].gpu) = g})

InUse(g) == VllmUsage(g) + OllamaUsage(g)

\* getAvailableGPUs: every detected GPU with its inUse count
AvailableGPUs ==
  [k \in 1..Len(gpuInfo) |->
     [id |-> gpuInfo[k].id, free |-> gpuInfo[k].free, inUse |-> InUse(gpuInfo[k].id)]]

\* (variant: the comparator looks at free memory only)
CompareGPUsByMemory(a, b) ==
  IF a.free # Unknown /\ b.free # Unknown THEN b.free - a.free ELSE 0

\* the comparator of availableGPUs.sort in selectOptimalGPU
CompareGPUs(a, b) ==
  IF a.inUse # b.inUse THEN a.inUse - b.inUse
  ELSE IF a.free # Unknown /\ b.free # Unknown THEN b.free - a.free
  ELSE 0

\* Array.prototype.sort is stable: an element goes behind the elements that
\* do not compare greater
RECURSIVE InsertSorted(_, _)
InsertSorted(x, seq) ==
  IF seq = <<>> THEN <<x>>
  ELSE IF CompareGPUs(Head(seq), x) <= 0
       THEN <<Head(seq)>> \o InsertSorted(x, Tail(seq))
       ELSE <<x>> \o seq

RECURSIVE SortGPUs(_)
SortGPUs(seq) ==
  IF seq = <<>> THEN <<>>
  ELSE InsertSorted(seq[Len(seq)], SortGPUs(SubSeq(seq, 1, Len(seq) - 1)))

\* selectOptimalGPU(preferredGPU): the id of the GPU it returns, "" for null;
\* a preferred id that is not detected falls through to the automatic choice
SelectOptimalGPU(preferredGPU) ==
  IF ~HasGPU \/ preferredGPU = "cpu" THEN ""
  ELSE IF preferredGPU # "auto" /\ \E k \in 1..Len(gpuInfo) : gpuInfo[k].id = preferredGPU
       THEN preferredGPU
  ELSE SortGPUs(AvailableGPUs)[1].id

\* getDeviceConfigForGPU(selectedGPU).gpuId ("" is null); every detected
\* inventory has type nvidia
DeviceGpuId(selectedGPU) == IF ~HasGPU THEN "" ELSE selectedGPU

\* the GPUs the DeviceRequests of getDeviceConfigForGPU show the container:
\* none without a device request, all of them for Count -1, the one of
\* DeviceIDs otherwise
VisibleGPUs(selectedGPU) ==
  IF DeviceGpuId(selectedGPU) = "" THEN 0
  ELSE IF selectedGPU = "auto" THEN Len(gpuInfo)
  ELSE 1

Min(a, b) == IF a <= b THEN a ELSE b

\* the value createVLLMContainer pushes after '--tensor-parallel-size' (0:
\* the argument is not pushed); the Ollama container has an empty Cmd
TensorParallelArg(kind, selectedGPU, requested) ==
  IF kind # "vllm" THEN 0
  ELSE IF selectedGPU # "" /\ DeviceGpuId(selectedGPU) = "auto"
       THEN (IF Len(gpuInfo) > 1 THEN Min(requested, Len(gpuInfo)) ELSE 0)
  ELSE IF requested > 1 THEN requested
  ELSE 0

\* getGPUInfo(): returns this.gpuInfo when initialized; otherwise
\* initializeGPUDetection calls detectGPUs, which starts nvidia-smi before its
\* first await
BeginGetGPUInfo(s, lim) ==
  /\ CanBegin(s, lim)
  /\ req' = [req EXCEPT ![s] =
               IF initialized
               THEN Finish([Idle EXCEPT !.op = "gpuinfo", !.info = gpuInfo], "ok")
               ELSE [Idle EXCEPT !.op = "gpuinfo", !.pc = "detect"]]
  /\ UNCHANGED <<instances, ollama, ports, containers, nextId, nextCid, faults>>
  /\ UNCHANGED others

\* refreshGPUInfo(): this.initialized = false, then initializeGPUDetection
BeginRefresh(s, lim) ==
  /\ CanBegin(s, lim)
  /\ initialized' = FALSE
  /\ req' = [req EXCEPT ![s] = [Idle EXCEPT !.op = "refresh", !.pc = "detect"]]
  /\ UNCHANGED <<instances, ollama, ports, containers, nextId, nextCid, faults>>
  /\ UNCHANGED <<models, gpuInfo>>

\* the vendor query of one caller answers (whatever it lists by then; every
\* failure ends as the inventory without GPU): this.gpuInfo = ...,
\* this.initialized = true, and the caller gets this.gpuInfo
DetectDone(s) ==
  /\ req[s].pc = "detect"
  /\ \E inv \in Inventories :
       /\ gpuInfo' = inv
       /\ req' = [req EXCEPT ![s] = Finish([req[s] EXCEPT !.info = inv], "ok")]
  /\ initialized' = TRUE
  /\ UNCHANGED <<instances, ollama, ports, containers, nextId, nextCid, faults>>
  /\ UNCHANGED models

\* a direct call of selectOptimalGPU(preferredGPU)
SelectCall(s, preferredGPU) ==
  /\ req[s].pc = "idle"
  /\ req' = [req EXCEPT ![s] =
               Finish([Idle EXCEPT !.op = "select", !.pref = preferredGPU,
                                   !.gpu = SelectOptimalGPU(preferredGPU)], "ok")]
  /\ UNCHANGED <<instances, ollama, ports, containers, nextId, nextCid, faults>>
  /\ UNCHANGED others

\* --------------------------------------------------------- request bodies
\* req.body of POST /: name, modelName, requireAuth, apiKey, gpuSelection
\* ("" is a field left out) and dflt, the setting default_api_key read by
\* getInstanceDefaults
Body(name, model, auth, apiKey, dflt, pref) ==
  [name |-> name, model |-> model, auth |-> auth, apiKey |-> apiKey,
   dflt |-> dflt, pref |-> pref]

DefaultBody(name) == Body(name, "m", TRUE, "", DefaultApiKey, "")

\* the bodies a create is called with: any combination of missing fields,
\* and for a complete body any choice of authentication and of GPU
Bodies ==
  {Body(n, m, TRUE, "", DefaultApiKey, "") : n \in {"", "a"}, m \in {"", "m"}}
  \cup {Body("a", "m", a, k, DefaultApiKey, "") : a \in BOOLEAN, k \in {"", "k", "sk-k"}}
  \cup {Body("a", "m", TRUE, "", "", "")}
  \cup {Body("a", "m", TRUE, "", DefaultApiKey, g) : g \in {"cpu", GpuName[1], NoSuchGpu}}

OllamaBodies == {Body(n, "", a, "", DefaultApiKey, "") : n \in {"", "a"}, a \in BOOLEAN}

\* (variant: only the name is required)
ValidCreateNameOnly(body) == body.name # ""

\* if (!name || !modelName) return res.status(400)
ValidCreate(body) == body.name # "" /\ body.model # ""

\* if (!name) return res.status(400) of the Ollama routes
ValidOllamaCreate(body) == body.name # ""

\* key.startsWith('sk-') ? key : `sk-${key}`
WithSkPrefix(k) ==
  CASE k = "k"        -> "sk-k"
    [] k = "localkey" -> "sk-localkey"
    [] OTHER          -> k

\* effectiveApiKey of the create handlers ("" is null)
EffectiveApiKey(body) ==
  IF ~body.auth THEN ""
  ELSE IF body.apiKey # "" THEN WithSkPrefix(body.apiKey)
  ELSE IF body.dflt # "" THEN WithSkPrefix(body.dflt)
  ELSE "sk-localtest"

\* gpuSelection || defaults.gpuSelection
EffectiveGPUSelection(body) == IF body.pref = "" THEN DefaultGpuSelection ELSE body.pref

\* the value of '--api-key' in the command createVLLMContainer builds:
\* apiKey || 'localkey'; the Ollama container has an empty Cmd
CommandKey(kind, apiKey) ==
  IF kind # "vllm" THEN ""
  ELSE IF apiKey = "" THEN "localkey" ELSE apiKey

\* ---------------------------------------------------------- create (POST /)
\* the kind of container a handler creates
KindOf(op) == IF op = "ocreate" THEN "ollama" ELSE "vllm"

\* the locals a create handler has when it calls allocatePort
Started(op, id, body) ==
  [Idle EXCEPT !.op = op, !.pc = "alloc_read", !.id = id, !.name = body.name,
               !.model = body.model, !.auth = body.auth,
               !.key = EffectiveApiKey(body), !.pref = EffectiveGPUSelection(body),
               !.full = Full(ports)]

\* the locals of a create handler that answered 400
Rejected(op, body) ==
  Finish([Idle EXCEPT !.op = op, !.name = body.name, !.model = body.model,
                      !.auth = body.auth], "validation")

\* router.post('/') of the vLLM routes up to the call of allocatePort: the
\* validation, the effective settings and uuidv4()
BeginVCreateReq(s, body, lim) ==
  /\ CanBegin(s, lim)
  /\ nextId <= MaxIds
  /\ nextCid <= MaxCids
  /\ IF ValidCreate(body)
     THEN /\ req' = [req EXCEPT ![s] = Started("vcreate", nextId, body)]
          /\ nextId' = nextId + 1
     ELSE /\ req' = [req EXCEPT ![s] = Rejected("vcreate", body)]
          /\ nextId' = nextId
  /\ UNCHANGED <<instances, ollama, ports, containers, nextCid, faults>>
  /\ UNCHANGED others

\* router.post('/') of the Ollama routes up to the call of allocatePort
BeginOCreateReq(s, body, lim) ==
  /\ CanBegin(s, lim)
  /\ nextId <= MaxIds
  /\ nextCid <= MaxCids
  /\ IF ValidOllamaCreate(body)
     THEN /\ req' = [req EXCEPT ![s] = Started("ocreate", nextId, body)]
          /\ nextId' = nextId + 1
     ELSE /\ req' = [req EXCEPT ![s] = Rejected("ocreate", body)]
          /\ nextId' = nextId
  /\ UNCHANGED <<instances, ollama, ports, containers, nextCid, faults>>
  /\ UNCHANGED others

\* router.post('/') of the vLLM routes called with a complete body that
\* names a GPU selection and a tensorParallelSize
BeginVCreateTensor(s, pref, tps, lim) ==
  /\ CanBegin(s, lim)
  /\ nextId <= MaxIds
  /\ nextCid <= MaxCids
  /\ req' = [req EXCEPT ![s] =
               [Started("vcreate", nextId,
                        Body("a", "m", TRUE, "", DefaultApiKey, pref))
                  EXCEPT !.tps = tps]]
  /\ nextId' = nextId + 1
  /\ UNCHANGED <<instances, ollama, ports, containers, nextCid, faults>>
  /\ UNCHANGED others

\* a create request with the given name and every other field at its default
BeginVCreate(s, name, lim) == BeginVCreateReq(s, DefaultBody(name), lim)

BeginOCreate(s, name, lim) == BeginOCreateReq(s, DefaultBody(name), lim)

\* createOrGetOllamaContainer: an existing container whose name starts with
\* "ollama-" is reused (the first the daemon lists, it lists newest first),
\* no container is created
ExistingOllama == {c \in Cids : containers[c].kind = "ollama"}

OllamaList(s) ==
  /\ req[s].pc = "ollama_list"
  /\ IF ExistingOllama # {}
     THEN \E c \in ExistingOllama :
            /\ \A d \in ExistingOllama : d <= c
            /\ req' = [req EXCEPT ![s] = [req[s] EXCEPT !.pc = "insert_row", !.cid = c,
                                                        !.gpu = "auto"]]
     ELSE req' = [req EXCEPT ![s] = [req[s] EXCEPT !.pc = "docker_create"]]
  /\ UNCHANGED <<instances, ollama, ports, containers, nextId, nextCid, faults>>
  /\ UNCHANGED others

\* selectOptimalGPU, the command and docker.createContainer(containerConfig)
\* in createVLLMContainer and createOrGetOllamaContainer; a rejection propagates to the handler's catch,
\* which answers 500 and does nothing else
DockerCreate(s) ==
  /\ req[s].pc = "docker_create"
  /\ \/ /\ NameTaken(KindOf(req[s].op), req[s].name, req[s].id)
        /\ req' = [req EXCEPT ![s] = Finish(req[s], "driver")]
        /\ UNCHANGED <<containers, nextCid, faults>>
     \/ /\ ~NameTaken(KindOf(req[s].op), req[s].name, req[s].id)
        /\ CanFault
        /\ faults' = faults + 1
        /\ req' = [req EXCEPT ![s] = Finish(req[s], "driver")]
        /\ UNCHANGED <<containers, nextCid>>
     \/ /\ ~NameTaken(KindOf(req[s].op), req[s].name, req[s].id)
        /\ nextCid <= MaxCids
        /\ containers' = [containers EXCEPT ![nextCid] =
                            [kind |-> KindOf(req[s].op), name |-> req[s].name,
                             uuid |-> req[s].id, port |-> req[s].port,
                             running |-> FALSE,
                             cmdkey |-> CommandKey(KindOf(req[s].op), req[s].key),
                             tp |-> TensorParallelArg(KindOf(req[s].op),
                                      SelectOptimalGPU(req[s].pref), req[s].tps),
                             gpu |-> SelectOptimalGPU(req[s].pref)]]
        /\ nextCid' = nextCid + 1
        /\ req' = [req EXCEPT ![s] = [req[s] EXCEPT !.pc = "docker_start",
                                                    !.cid = nextCid, !.made = TRUE,
                                                    !.gpu = SelectOptimalGPU(req[s].pref)]]
        /\ UNCHANGED faults
  /\ UNCHANGED <<instances, ollama, ports, nextId>>
  /\ UNCHANGED others

\* where a handler continues after the driver returned the container
AfterStart(op) == IF op = "vupdate" THEN "update_row" ELSE "insert_row"

\* container.start() (and trackGPUUsage) in the two drivers
DockerStart(s) ==
  /\ req[s].pc = "docker_start"
  /\ \/ /\ \/ ~Present(req[s].cid)
           \/ HostPortBusy(req[s].cid, req[s].port)
        /\ req' = [req EXCEPT ![s] = Finish(req[s], "driver")]
        /\ UNCHANGED <<containers, faults>>
     \/ /\ Present(req[s].cid)
        /\ ~HostPortBusy(req[s].cid, req[s].port)
        /\ CanFault
        /\ faults' = faults + 1
        /\ req' = [req EXCEPT ![s] = Finish(req[s], "driver")]
        /\ UNCHANGED containers
     \/ /\ Present(req[s].cid)
        /\ ~HostPortBusy(req[s].cid, req[s].port)
        /\ containers' = [containers EXCEPT ![req[s].cid].running = TRUE]
        /\ req' = [req EXCEPT ![s] = [req[s] EXCEPT !.pc = AfterStart(req[s].op)]]
        /\ UNCHANGED faults
  /\ UNCHANGED <<instances, ollama, ports, nextId, nextCid>>
  /\ UNCHANGED others

\* INSERT INTO instances: id is the PRIMARY KEY and port is UNIQUE
CanInsertRow(table, id, port) ==
  /\ table[id] = NoRow
  /\ \A i \in Ids : table[i] # NoRow => table[i].port # port

\* INSERT INTO ollama_instances
CanInsertOllamaRow(table, id, port) ==
  /\ table[id] = NoRow
  /\ \A i \in Ids : table[i] # NoRow => table[i].port # port

\* the values the INSERT of a create handler stores
CreatedRow(r) ==
  [Row(r.port, r.cid, "running") EXCEPT !.name = r.name, !.key = r.key, !.gpu = r.gpu]

\* the INSERT of the create handlers and its callback: 201, or 500 with
\* nothing undone
InsertRow(s) ==
  /\ req[s].pc = "insert_row"
  /\ \/ /\ req[s].op = "vcreate"
        /\ CanInsertRow(instances, req[s].id, req[s].port)
        /\ instances' = [instances EXCEPT ![req[s].id] = CreatedRow(req[s])]
        /\ req' = [req EXCEPT ![s] = Finish(req[s], "ok")]
        /\ UNCHANGED <<ollama, faults>>
     \/ /\ req[s].op = "ocreate"
        /\ CanInsertOllamaRow(ollama, req[s].id, req[s].port)
        /\ ollama' = [ollama EXCEPT ![req[s].id] = CreatedRow(req[s])]
        /\ req' = [req EXCEPT ![s] = Finish(req[s], "ok")]
        /\ UNCHANGED <<instances, faults>>
     \/ /\ \/ req[s].op = "vcreate" /\ ~CanInsertRow(instances, req[s].id, req[s].port)
           \/ req[s].op = "ocreate" /\ ~CanInsertOllamaRow(ollama, req[s].id, req[s].port)
        /\ req' = [req EXCEPT ![s] = Finish(req[s], "db")]
        /\ UNCHANGED <<instances, ollama, faults>>
     \/ /\ CanFault
        /\ faults' = faults + 1
        /\ req' = [req EXCEPT ![s] = Finish(req[s], "db")]
        /\ UNCHANGED <<instances, ollama>>
  /\ UNCHANGED <<ports, containers, nextId, nextCid>>
  /\ UNCHANGED others

\* ------------------------------------------------------ remove (DELETE /:id)
TableOf(op) ==
  IF op \in {"ocreate", "oremove", "ostart", "ostop", "orestart"}
  THEN ollama ELSE instances

\* router.delete('/:id') of either kind is called
BeginRemove(s, op, id, lim) ==
  /\ CanBegin(s, lim)
  /\ op \in {"vremove", "oremove"}
  /\ req' = [req EXCEPT ![s] = [Idle EXCEPT !.op = op, !.pc = "rm_read", !.id = id]]
  /\ UNCHANGED <<instances, ollama, ports, containers, nextId, nextCid, faults>>
  /\ UNCHANGED others

\* SELECT * FROM (ollama_)instances WHERE id = ?: 404 when there is no row
RmRead(s) ==
  /\ req[s].pc = "rm_read"
  /\ LET row == TableOf(req[s].op)[req[s].id] IN
       req' = [req EXCEPT ![s] =
                 IF row = NoRow
                 THEN Finish(req[s], "not_found")
                 ELSE [req[s] EXCEPT !.port = row.port, !.old = row.cid,
                                     !.pc = IF row.cid # None THEN "rm_docker"
                                                              ELSE "rm_release"]]
  /\ UNCHANGED <<instances, ollama, ports, containers, nextId, nextCid, faults>>
  /\ UNCHANGED others

\* DockerService.removeContainer rethrows every error of container.remove
VllmRemoveTolerates404 == FALSE

\* OllamaService.removeContainer returns 'already_removed' on statusCode 404
OllamaRemoveTolerates404 == TRUE

Tolerates404(op) ==
  IF op = "oremove" THEN OllamaRemoveTolerates404 ELSE VllmRemoveTolerates404

\* (variant: the handler logs the driver's error and goes on)
RemoveFailureSwallowed(r) == [r EXCEPT !.drv = "error", !.pc = "rm_release"]

\* the outer catch of the remove handlers: an error of removeContainer ends
\* the request with 500, releasePort and the DELETE are not reached
RemoveFailure(r) == Finish([r EXCEPT !.drv = "error"], "driver")

\* removeContainer(instance.container_id) in the remove handlers:
\* container.remove({force: true})
RmDocker(s) ==
  /\ req[s].pc = "rm_docker"
  /\ \/ /\ ~Present(req[s].old)
        /\ req' = [req EXCEPT ![s] =
                     IF Tolerates404(req[s].op)
                     THEN [req[s] EXCEPT !.drv = "gone", !.pc = "rm_release"]
                     ELSE Finish([req[s] EXCEPT !.drv = "gone"], "driver")]
        /\ UNCHANGED <<containers, faults>>
     \/ /\ Present(req[s].old)
        /\ CanFault
        /\ faults' = faults + 1
        /\ req' = [req EXCEPT ![s] = RemoveFailure(req[s])]
        /\ UNCHANGED containers
     \/ /\ Present(req[s].old)
        /\ containers' = [containers EXCEPT ![req[s].old] = NoCont]
        /\ req' = [req EXCEPT ![s] = [req[s] EXCEPT !.drv = "ok", !.pc = "rm_release"]]
        /\ UNCHANGED faults
  /\ UNCHANGED <<instances, ollama, ports, nextId, nextCid>>
  /\ UNCHANGED others

\* portService.releasePort(instance.port) in the remove handlers
RmRelease(s) ==
  /\ req[s].pc = "rm_release"
  /\ ports' = ReleasedPorts(ports, req[s].port)
  /\ req' = [req EXCEPT ![s] = [req[s] EXCEPT !.pc = "rm_delete"]]
  /\ UNCHANGED <<instances, ollama, containers, nextId, nextCid, faults>>
  /\ UNCHANGED others

\* DELETE FROM (ollama_)instances WHERE id = ? and its callback
RmDelete(s) ==
  /\ req[s].pc = "rm_delete"
  /\ \/ /\ req[s].op = "vremove"
        /\ instances' = [instances EXCEPT ![req[s].id] = NoRow]
        /\ req' = [req EXCEPT ![s] = Finish(req[s], "ok")]
        /\ UNCHANGED <<ollama, faults>>
     \/ /\ req[s].op = "oremove"
        /\ ollama' = [ollama EXCEPT ![req[s].id] = NoRow]
        /\ req' = [req EXCEPT ![s] = Finish(req[s], "ok")]
        /\ UNCHANGED <<instances, faults>>
     \/ /\ CanFault
        /\ faults' = faults + 1
        /\ req' = [req EXCEPT ![s] = Finish(req[s], "db")]
        /\ UNCHANGED <<instances, ollama>>
  /\ UNCHANGED <<ports, containers, nextId, nextCid>>
  /\ UNCHANGED others

\* ------------------------- start / stop / restart (POST /:id/{start,stop,restart})
LifeOps == {"vstart", "vstop", "vrestart", "ostart", "ostop", "orestart"}

VerbOf(op) ==
  CASE op \in {"vstart", "ostart"} -> "start"
    [] op \in {"vstop", "ostop"}   -> "stop"
    [] OTHER                       -> "restart"

\* a variant that writes running after every verb
StatusAlwaysRunning(verb) == "running"

\* the status the handler writes after its driver call
StatusAfter(verb) == IF verb = "stop" THEN "stopped" ELSE "running"

\* container.stop() / start() / restart() of dockerode, which the drivers
\* await and rethrow: the daemon answers 404 for an absent container, 304
\* for a stop of a stopped and a start of a running container (dockerode
\* rejects every status except 204), 500 when the host port cannot be bound
DriverOutcome(verb, c) ==
  IF c = None THEN "gone"
  ELSE IF ~Present(c) THEN "gone"
  ELSE IF verb = "stop"
       THEN (IF containers[c].running THEN "ok" ELSE "not_modified")
  ELSE IF verb = "start" /\ containers[c].running THEN "not_modified"
  ELSE IF ~containers[c].running /\ HostPortBusy(c, containers[c].port) THEN "error"
  ELSE "ok"

\* one of the six handlers is called
BeginLife(s, op, id, lim) ==
  /\ CanBegin(s, lim)
  /\ op \in LifeOps
  /\ req' = [req EXCEPT ![s] = [Idle EXCEPT !.op = op, !.pc = "life_read", !.id = id]]
  /\ UNCHANGED <<instances, ollama, ports, containers, nextId, nextCid, faults>>
  /\ UNCHANGED others

\* SELECT * FROM (ollama_)instances WHERE id = ?: 404 when there is no row
LifeRead(s) ==
  /\ req[s].pc = "life_read"
  /\ LET row == TableOf(req[s].op)[req[s].id] IN
       req' = [req EXCEPT ![s] =
                 IF row = NoRow
                 THEN Finish(req[s], "not_found")
                 ELSE [req[s] EXCEPT !.port = row.port, !.old = row.cid,
                                     !.pc = "life_docker"]]
  /\ UNCHANGED <<instances, ollama, ports, containers, nextId, nextCid, faults>>
  /\ UNCHANGED others

\* the awaited driver call; its rejection goes to the inner catch, which
\* answers 500 and leaves the row alone
LifeDocker(s) ==
  /\ req[s].pc = "life_docker"
  /\ LET verb == VerbOf(req[s].op)
         out  == DriverOutcome(verb, req[s].old) IN
     \/ /\ out # "ok"
        /\ req' = [req EXCEPT ![s] = Finish([req[s] EXCEPT !.drv = out], "driver")]
        /\ UNCHANGED <<containers, faults>>
     \/ /\ out = "ok"
        /\ CanFault
        /\ faults' = faults + 1
        /\ req' = [req EXCEPT ![s] = Finish([req[s] EXCEPT !.drv = "error"], "driver")]
        /\ UNCHANGED containers
     \/ /\ out = "ok"
        /\ containers' = [containers EXCEPT ![req[s].old].running = (verb # "stop")]
        /\ req' = [req EXCEPT ![s] = [req[s] EXCEPT !.drv = "ok", !.pc = "life_write"]]
        /\ UNCHANGED faults
  /\ UNCHANGED <<instances, ollama, ports, nextId, nextCid>>
  /\ UNCHANGED others

\* the columns of UPDATE (ollama_)instances SET status = ?, updated_at =
\* CURRENT_TIMESTAMP WHERE id = ?
LifeSetColumns == {"status", "updated_at"}

\* UPDATE (ollama_)instances SET status = ? WHERE id = ? and its callback:
\* an error of the UPDATE is answered with 500 'Failed to update instance
\* status'
LifeWrite(s) ==
  /\ req[s].pc = "life_write"
  /\ LET st == StatusAfter(VerbOf(req[s].op)) IN
     \/ /\ req[s].op \in {"vstart", "vstop", "vrestart"}
        /\ instances' = IF instances[req[s].id] = NoRow THEN instances
                        ELSE [instances EXCEPT ![req[s].id].status = st]
        /\ req' = [req EXCEPT ![s] = [Finish(req[s], "ok") EXCEPT !.wrote = LifeSetColumns]]
        /\ UNCHANGED <<ollama, faults>>
     \/ /\ req[s].op \in {"ostart", "ostop", "orestart"}
        /\ ollama' = IF ollama[req[s].id] = NoRow THEN ollama
                     ELSE [ollama EXCEPT ![req[s].id].status = st]
        /\ req' = [req EXCEPT ![s] = [Finish(req[s], "ok") EXCEPT !.wrote = LifeSetColumns]]
        /\ UNCHANGED <<instances, faults>>
     \/ /\ CanFault
        /\ faults' = faults + 1
        /\ req' = [req EXCEPT ![s] = Finish(req[s], "db")]
        /\ UNCHANGED <<instances, ollama>>
  /\ UNCHANGED <<ports, containers, nextId, nextCid>>
  /\ UNCHANGED others

\* ------------------------------ Ollama models (POST / DELETE /:id/models)
\* router.post('/:id/models') is called with a model name that has no record
\* yet for this instance
BeginPull(s, id, m, lim) ==
  /\ CanBegin(s, lim)
  /\ models[id][m] = "none"
  /\ \E up \in Streams :
       req' = [req EXCEPT ![s] = [Idle EXCEPT !.op = "pull", !.pc = "pull_read",
                                              !.id = id, !.model = m, !.up = up]]
  /\ UNCHANGED <<instances, ollama, ports, containers, nextId, nextCid, faults>>
  /\ UNCHANGED others

\* SELECT * FROM ollama_instances WHERE id = ?: 404 when there is no row
PullRead(s) ==
  /\ req[s].pc = "pull_read"
  /\ LET row == ollama[req[s].id] IN
       req' = [req EXCEPT ![s] =
                 IF row = NoRow
                 THEN Finish(req[s], "not_found")
                 ELSE [req[s] EXCEPT !.port = row.port, !.old = row.cid,
                                     !.pc = "pull_insert"]]
  /\ UNCHANGED <<instances, ollama, ports, containers, nextId, nextCid, faults>>
  /\ UNCHANGED others

\* INSERT INTO ollama_models (id, instance_id, name, status) with status
\* 'downloading'
PullInsert(s) ==
  /\ req[s].pc = "pull_insert"
  /\ \/ /\ models' = [models EXCEPT ![req[s].id][req[s].model] = "downloading"]
        /\ req' = [req EXCEPT ![s] = [req[s] EXCEPT !.pc = "pull_upstream"]]
        /\ UNCHANGED faults
     \/ /\ CanFault
        /\ faults' = faults + 1
        /\ req' = [req EXCEPT ![s] = Finish(req[s], "db")]
        /\ UNCHANGED models
  /\ UNCHANGED <<instances, ollama, ports, containers, nextId, nextCid, gpuInfo, initialized>>

\* the Ollama server of the instance is reachable on its port
Serving(p) == \E c \in Cids : /\ containers[c].kind = "ollama"
                               /\ containers[c].running
                               /\ containers[c].port = p

\* pullModelStream: finalStatus is the last record with status success; the
\* promise resolves when the stream ends with a finalStatus and rejects when
\* it ends without one, breaks, or the server cannot be reached
PullModelStream(up, serving) ==
  IF /\ serving
     /\ up.ending = "end"
     /\ \E k \in 1..Len(up.frames) : up.frames[k] = "success"
  THEN "ok" ELSE "error"

\* ollamaService.pullModel, which the route calls: OllamaService defines
\* pullModelStream only, so the call throws a TypeError (not a function)
\* inside the route's try, whatever the server would stream
PullModel(up, serving) == "error"

\* await ollamaService.pullModel(instance.port, modelName) and the catch
\* around it
PullUpstream(s) ==
  /\ req[s].pc = "pull_upstream"
  /\ req' = [req EXCEPT ![s] =
               [req[s] EXCEPT !.pc = "pull_update",
                              !.drv = PullModel(req[s].up, Serving(req[s].port))]]
  /\ UNCHANGED <<instances, ollama, ports, containers, nextId, nextCid, faults>>
  /\ UNCHANGED others

\* UPDATE ollama_models SET status = 'ready' / 'failed' WHERE id = ?; an error
\* of the UPDATE is only logged
PullUpdate(s) ==
  /\ req[s].pc = "pull_update"
  /\ LET st  == IF req[s].drv = "ok" THEN "ready" ELSE "failed"
         res == IF req[s].drv = "ok" THEN "ok" ELSE "driver" IN
     \/ /\ models' = IF models[req[s].id][req[s].model] = "none" THEN models
                     ELSE [models EXCEPT ![req[s].id][req[s].model] = st]
        /\ req' = [req EXCEPT ![s] = Finish(req[s], res)]
        /\ UNCHANGED faults
     \/ /\ CanFault
        /\ faults' = faults + 1
        /\ req' = [req EXCEPT ![s] = Finish(req[s], res)]
        /\ UNCHANGED models
  /\ UNCHANGED <<instances, ollama, ports, containers, nextId, nextCid, gpuInfo, initialized>>

\* router.get('/:id') of the Ollama routes: the models of its answer are the
\* rows SELECT * FROM ollama_models WHERE instance_id = ? returns
InstanceModels(id) == models[id]

\* ------------------------------------------- pullModelStream, chunk by chunk
\* the text of one progress record, as characters: a JSON object whose status
\* is st; the server ends every record with a newline
Newline == "\n"

LineOf(st) == <<"{", st, "}">>

RECURSIVE BodyOf(_)
BodyOf(frames) ==
  IF frames = <<>> THEN <<>>
  ELSE LineOf(Head(frames)) \o <<Newline>> \o BodyOf(Tail(frames))

\* chunk.toString().split('\n').filter(line => line.length > 0); cur is the
\* line read so far
RECURSIVE SplitLines(_, _)
SplitLines(text, cur) ==
  LET line == IF cur = <<>> THEN <<>> ELSE <<cur>> IN
  IF text = <<>> THEN line
  ELSE IF Head(text) = Newline THEN line \o SplitLines(Tail(text), <<>>)
  ELSE SplitLines(Tail(text), Append(cur, Head(text)))

\* JSON.parse(line).status: a piece of a record is no JSON text and throws
JsonParse(line) ==
  IF /\ Len(line) = 3
     /\ line[1] = "{"
     /\ line[2] \in {"pulling", "success"}
     /\ line[3] = "}"
  THEN line[2] ELSE "invalid"

\* the for loop of the data handler over the lines of one chunk: throws is
\* the set of lines (by position) for which onProgress throws; the catch
\* around JSON.parse, onProgress and the assignment of finalStatus only logs
RECURSIVE OnLines(_, _, _, _)
OnLines(lines, k, throws, r) ==
  IF k > Len(lines) THEN r
  ELSE LET st == JsonParse(lines[k]) IN
       OnLines(lines, k + 1, throws,
               IF st = "invalid" THEN r
               ELSE IF k \in throws
                    THEN [r EXCEPT !.got = Append(@, st), !.threw = TRUE]
                    ELSE [r EXCEPT !.got = Append(@, st),
                                   !.final = @ \/ st = "success"])

\* pullModelStream(port, modelName, onProgress) is called and axios.post
\* answers with the stream
BeginPullStream(s, lim) ==
  /\ CanBegin(s, lim)
  /\ \E up \in Streams :
       req' = [req EXCEPT ![s] =
                 [Idle EXCEPT !.op = "pullstream", !.pc = "stream",
                              !.up = up, !.body = BodyOf(up.frames)]]
  /\ UNCHANGED <<instances, ollama, ports, containers, nextId, nextCid, faults>>
  /\ UNCHANGED others

\* stream.data.on('data'): the next n characters of the body arrive as one
\* chunk
StreamData(s) ==
  /\ req[s].op = "pullstream"
  /\ req[s].pc = "stream"
  /\ \E n \in 1..Len(req[s].body) :
       LET chunk == SubSeq(req[s].body, 1, n)
           rest  == SubSeq(req[s].body, n + 1, Len(req[s].body))
           lines == SplitLines(chunk, <<>>) IN
       \E throws \in SUBSET (1..Len(lines)) :
         req' = [req EXCEPT ![s] =
                   [OnLines(lines, 1, throws, req[s]) EXCEPT
                      !.body = rest,
                      !.cut = @ \/ chunk[n] # Newline]]
  /\ UNCHANGED <<instances, ollama, ports, containers, nextId, nextCid, faults>>
  /\ UNCHANGED others

\* stream.data.on('end') resolves with finalStatus or rejects without one;
\* stream.data.on('error') rejects
StreamEnd(s) ==
  /\ req[s].op = "pullstream"
  /\ req[s].pc = "stream"
  /\ req[s].body = <<>>
  /\ req' = [req EXCEPT ![s] =
               Finish(req[s], IF req[s].up.ending = "end" /\ req[s].final
                              THEN "ok" ELSE "driver")]
  /\ UNCHANGED <<instances, ollama, ports, containers, nextId, nextCid, faults>>
  /\ UNCHANGED others

\* router.delete('/:id/models/:modelName') is called
BeginModelDelete(s, id, m, lim) ==
  /\ CanBegin(s, lim)
  /\ req' = [req EXCEPT ![s] = [Idle EXCEPT !.op = "mdelete", !.pc = "md_read",
                                            !.id = id, !.model = m]]
  /\ UNCHANGED <<instances, ollama, ports, containers, nextId, nextCid, faults>>
  /\ UNCHANGED others

\* SELECT * FROM ollama_instances WHERE id = ?: 404 when there is no row
MdRead(s) ==
  /\ req[s].pc = "md_read"
  /\ LET row == ollama[req[s].id] IN
       req' = [req EXCEPT ![s] =
                 IF row = NoRow
                 THEN Finish(req[s], "not_found")
                 ELSE [req[s] EXCEPT !.port = row.port, !.pc = "md_upstream"]]
  /\ UNCHANGED <<instances, ollama, ports, containers, nextId, nextCid, faults>>
  /\ UNCHANGED others

\* await ollamaService.deleteModel(instance.port, modelName): a rejection is
\* answered with 500 and the record stays
MdUpstream(s) ==
  /\ req[s].pc = "md_upstream"
  /\ \/ /\ Serving(req[s].port)
        /\ req' = [req EXCEPT ![s] = [req[s] EXCEPT !.pc = "md_delete", !.drv = "ok"]]
     \/ req' = [req EXCEPT ![s] = Finish([req[s] EXCEPT !.drv = "error"], "driver")]
  /\ UNCHANGED <<instances, ollama, ports, containers, nextId, nextCid, faults>>
  /\ UNCHANGED others

\* DELETE FROM ollama_models WHERE instance_id = ? AND name = ?
MdDelete(s) ==
  /\ req[s].pc = "md_delete"
  /\ \/ /\ models' = [models EXCEPT ![req[s].id][req[s].model] = "none"]
        /\ req' = [req EXCEPT ![s] = Finish(req[s], "ok")]
        /\ UNCHANGED faults
     \/ /\ CanFault
        /\ faults' = faults + 1
        /\ req' = [req EXCEPT ![s] = Finish(req[s], "db")]
        /\ UNCHANGED models
  /\ UNCHANGED <<instances, ollama, ports, containers, nextId, nextCid, gpuInfo, initialized>>

\* -------------------------------------------------------- update (PUT /:id)
\* router.put('/:id') is called with a name and a model name
BeginVUpdate(s, id, name, lim) ==
  /\ CanBegin(s, lim)
  /\ nextCid <= MaxCids
  /\ req' = [req EXCEPT ![s] =
               [Started("vupdate", id, DefaultBody(name)) EXCEPT !.pc = "up_read",
                                                                 !.full = FALSE]]
  /\ UNCHANGED <<instances, ollama, ports, containers, nextId, nextCid, faults>>
  /\ UNCHANGED others

\* SELECT * FROM instances WHERE id = ?: 404 when there is no row
UpRead(s) ==
  /\ req[s].pc = "up_read"
  /\ LET row == instances[req[s].id] IN
       req' = [req EXCEPT ![s] =
                 IF row = NoRow
                 THEN Finish(req[s], "not_found")
                 ELSE [req[s] EXCEPT !.port = row.port, !.old = row.cid,
                                     !.pc = IF row.cid # None THEN "up_stop"
                                                              ELSE "docker_create"]]
  /\ UNCHANGED <<instances, ollama, ports, containers, nextId, nextCid, faults>>
  /\ UNCHANGED others

\* stopContainer(instance.container_id) inside the inner try of the update:
\* container.stop() rejects when the container is absent (404) or not
\* running (304); the catch only warns, and removeContainer is then skipped
UpStop(s) ==
  /\ req[s].pc = "up_stop"
  /\ \/ /\ ~(Present(req[s].old) /\ containers[req[s].old].running)
        /\ req' = [req EXCEPT ![s] = [req[s] EXCEPT !.pc = "docker_create"]]
        /\ UNCHANGED <<containers, faults>>
     \/ /\ Present(req[s].old) /\ containers[req[s].old].running
        /\ CanFault
        /\ faults' = faults + 1
        /\ req' = [req EXCEPT ![s] = [req[s] EXCEPT !.pc = "docker_create"]]
        /\ UNCHANGED containers
     \/ /\ Present(req[s].old) /\ containers[req[s].old].running
        /\ containers' = [containers EXCEPT ![req[s].old].running = FALSE]
        /\ req' = [req EXCEPT ![s] = [req[s] EXCEPT !.pc = "up_remove"]]
        /\ UNCHANGED faults
  /\ UNCHANGED <<instances, ollama, ports, nextId, nextCid>>
  /\ UNCHANGED others

\* removeContainer(instance.container_id) inside the inner try of the update
UpRemove(s) ==
  /\ req[s].pc = "up_remove"
  /\ \/ /\ ~Present(req[s].old)
        /\ UNCHANGED <<containers, faults>>
     \/ /\ Present(req[s].old)
        /\ CanFault
        /\ faults' = faults + 1
        /\ UNCHANGED containers
     \/ /\ Present(req[s].old)
        /\ containers' = [containers EXCEPT ![req[s].old] = NoCont]
        /\ UNCHANGED faults
  /\ req' = [req EXCEPT ![s] = [req[s] EXCEPT !.pc = "docker_create"]]
  /\ UNCHANGED <<instances, ollama, ports, nextId, nextCid>>
  /\ UNCHANGED others

\* (variant: the UPDATE leaves the column container_id out)
UpdatedCidKept(row, r) == row.cid

\* the container_id the UPDATE of the update handler stores
UpdatedCid(row, r) == r.cid

\* UPDATE instances SET name, model_name, container_id, status = 'running',
\* ... WHERE id = ? and its callback (no row: nothing changes, no error)
UpdateRow(s) ==
  /\ req[s].pc = "update_row"
  /\ \/ /\ instances' =
             IF instances[req[s].id] = NoRow THEN instances
             ELSE [instances EXCEPT ![req[s].id] =
                     [@ EXCEPT !.cid = UpdatedCid(instances[req[s].id], req[s]),
                               !.status = "running",
                               !.name = req[s].name, !.key = req[s].key,
                               !.gpu = req[s].gpu]]
        /\ req' = [req EXCEPT ![s] = Finish(req[s], "ok")]
        /\ UNCHANGED faults
     \/ /\ CanFault
        /\ faults' = faults + 1
        /\ req' = [req EXCEPT ![s] = Finish(req[s], "db")]
        /\ UNCHANGED instances
  /\ UNCHANGED <<ollama, ports, containers, nextId, nextCid>>
  /\ UNCHANGED others

\* ------------------------------------------------------ container names
\* [a-f0-9]
HexChars == {"a", "b", "c", "d", "e", "f",
             "0", "1", "2", "3", "4", "5", "6", "7", "8", "9"}

\* {8}-{4}-{4}-{4}-{12}
UuidGroups == <<8, 4, 4, 4, 12>>

RECURSIVE Repeat(_, _)
Repeat(c, n) == IF n = 0 THEN <<>> ELSE <<c>> \o Repeat(c, n - 1)

\* the uuid whose k-th group repeats the character h[k]
RECURSIVE UuidFrom(_, _)
UuidFrom(h, k) ==
  IF k > Len(UuidGroups) THEN <<>>
  ELSE (IF k = 1 THEN <<>> ELSE <<"-">>) \o Repeat(h[k], UuidGroups[k])
       \o UuidFrom(h, k + 1)

\* the values of uuidv4() the names are built with
Uuids == {UuidFrom(h, 1) : h \in [1..Len(UuidGroups) -> {"a", "0"}]}

\* the names of the request bodies: every short name over a letter that is a
\* hexadecimal digit, one that is not and the hyphen, and names that hold a
\* whole uuid (the daemon admits only letters, digits, '_', '.' and '-' in the
\* name of a container, so no container name holds a line terminator)
ShortNames == UNION {[1..n -> {"a", "z", "-"}] : n \in 1..MaxNameLen}

UuidNames ==
  LET u == UuidFrom([k \in 1..Len(UuidGroups) |-> "a"], 1) IN
  {u, <<"z", "-">> \o u, u \o <<"-", "z">>, u \o <<"-">> \o u}

Prefix == <<"v", "l", "l", "m", "-">>

\* `vllm-${name}-${id}`
ContainerName(name, id) == Prefix \o name \o <<"-">> \o id

\* ([a-f0-9]{8}-[a-f0-9]{4}-[a-f0-9]{4}-[a-f0-9]{4}-[a-f0-9]{12})
RECURSIVE MatchesGroups(_, _)
MatchesGroups(u, k) ==
  LET n == UuidGroups[k] IN
  /\ Len(u) >= n
  /\ \A j \in 1..n : u[j] \in HexChars
  /\ IF k = Len(UuidGroups) THEN Len(u) = n
     ELSE /\ Len(u) > n
          /\ u[n + 1] = "-"
          /\ MatchesGroups(SubSeq(u, n + 2, Len(u)), k + 1)

\* (.+): one or more characters that are no line terminator
MatchesDotPlus(t) == Len(t) >= 1 /\ \A j \in 1..Len(t) : t[j] # "\n"

\* a variant that takes the name to end at the first hyphen
ParseAtFirstHyphen(text) ==
  LET cands == {n \in 1..Len(text) :
                  /\ 5 + n + 1 < Len(text)
                  /\ SubSeq(text, 1, 5) = Prefix
                  /\ text[5 + n + 1] = "-"} IN
  IF cands = {} THEN NoParts
  ELSE LET n == CHOOSE m \in cands : \A k \in cands : m <= k IN
       [instanceName |-> SubSeq(text, 6, 5 + n),
        uuid |-> SubSeq(text, 5 + n + 2, Len(text))]

\* containerName.match(/^vllm-(.+)-(uuid)$/): n is the length (.+) takes;
\* the greedy (.+) takes the longest n with which the rest still matches
ParseContainerName(text) ==
  LET cands == {n \in 1..Len(text) :
                  /\ 5 + n + 1 < Len(text)
                  /\ SubSeq(text, 1, 5) = Prefix
                  /\ MatchesDotPlus(SubSeq(text, 6, 5 + n))
                  /\ text[5 + n + 1] = "-"
                  /\ MatchesGroups(SubSeq(text, 5 + n + 2, Len(text)), 1)} IN
  IF cands = {} THEN NoParts
  ELSE LET n == CHOOSE m \in cands : \A k \in cands : m >= k IN
       [instanceName |-> SubSeq(text, 6, 5 + n),
        uuid |-> SubSeq(text, 5 + n + 2, Len(text))]

\* createVLLMContainer names the container of an instance
BeginName(s, lim) ==
  /\ CanBegin(s, lim)
  /\ \E name \in ShortNames \cup UuidNames, id \in Uuids :
       req' = [req EXCEPT ![s] =
                 [Idle EXCEPT !.op = "name", !.pc = "parse",
                              !.parts = [instanceName |-> name, uuid |-> id],
                              !.text = ContainerName(name, id)]]
  /\ UNCHANGED <<instances, ollama, ports, containers, nextId, nextCid, faults>>
  /\ UNCHANGED others

\* detectOrphanedContainers parses the name of the container
ParseName(s) ==
  /\ req[s].op = "name"
  /\ req[s].pc = "parse"
  /\ req' = [req EXCEPT ![s] =
               [Finish(req[s], "ok") EXCEPT
                  !.parsed = ParseContainerName(req[s].text)]]
  /\ UNCHANGED <<instances, ollama, ports, containers, nextId, nextCid, faults>>
  /\ UNCHANGED others

\* ------------------------------------------------- reconcile (OrphanService)
\* detectOrphanedContainers: the containers named vllm-... whose id is no
\* container_id of the table instances
TrackedCids == {instances[i].cid : i \in Stored(instances)} \ {None}

Orphans == {c \in Cids : containers[c].kind = "vllm" /\ c \notin TrackedCids}

\* GET /orphans?autoImport=... and GET /with-orphan-check are called
BeginReconcile(s, auto, lim) ==
  /\ CanBegin(s, lim)
  /\ req' = [req EXCEPT ![s] = [Idle EXCEPT !.op = "reconcile", !.pc = "rec_detect",
                                            !.auto = auto, !.f0 = faults]]
  /\ UNCHANGED <<instances, ollama, ports, containers, nextId, nextCid, faults>>
  /\ UNCHANGED others

\* GET /orphans?autoImport=true is called by a client that calls it again as
\* soon as the answer is there
BeginReconcileTwice(s, lim) ==
  /\ CanBegin(s, lim)
  /\ req' = [req EXCEPT ![s] = [Idle EXCEPT !.op = "reconcile", !.pc = "rec_detect",
                                            !.auto = TRUE, !.f0 = faults,
                                            !.twice = TRUE,
                                            !.snap = [NoSnap EXCEPT
                                                        !.containers = containers,
                                                        !.nextCid = nextCid]]]
  /\ UNCHANGED <<instances, ollama, ports, containers, nextId, nextCid, faults>>
  /\ UNCHANGED others

\* GET /with-orphan-check is called
BeginListCheck(s, lim) ==
  /\ CanBegin(s, lim)
  /\ req' = [req EXCEPT ![s] = [Idle EXCEPT !.op = "listcheck", !.pc = "rec_detect",
                                            !.auto = TRUE, !.f0 = faults]]
  /\ UNCHANGED <<instances, ollama, ports, containers, nextId, nextCid, faults>>
  /\ UNCHANGED others

\* checkAndImportOrphans returns: GET /with-orphan-check goes on with its
\* SELECT, GET /orphans answers; the client that repeats the request sends
\* the second one
EndPass(r) ==
  IF r.op = "listcheck"
  THEN [Idle EXCEPT !.op = "listcheck", !.pc = "list_read", !.f0 = r.f0]
  ELSE
  IF r.twice /\ r.snap.instances = <<>>
  THEN [Idle EXCEPT !.op = "reconcile", !.pc = "rec_detect", !.auto = TRUE,
                    !.f0 = r.f0, !.twice = TRUE,
                    !.snap = [r.snap EXCEPT !.instances = instances,
                                            !.ports = ports]]
  ELSE Finish(r, "ok")

\* checkAndImportOrphans up to the call of importOrphanedContainers: it
\* returns at once when no orphan was detected or autoImport is off; an
\* error of detectOrphanedContainers (listContainers, the SELECT, an inspect)
\* is rethrown to the route's catch, which answers 500
RecDetect(s) ==
  /\ req[s].pc = "rec_detect"
  /\ \/ /\ req' = [req EXCEPT ![s] =
                     IF Orphans = {} \/ ~req[s].auto
                     THEN EndPass(req[s])
                     ELSE [req[s] EXCEPT !.pc = "rec_cleanup", !.todo = Orphans,
                                         !.seen = Orphans]]
        /\ UNCHANGED faults
     \/ /\ CanFault
        /\ faults' = faults + 1
        /\ req' = [req EXCEPT ![s] = Finish(req[s], "driver")]
  /\ UNCHANGED <<instances, ollama, ports, containers, nextId, nextCid>>
  /\ UNCHANGED others

\* cleanupStalePortAllocations: the ids it takes as existing are the rows of
\* the table instances only
ExistingInstances == Stored(instances)

\* (variant: every reservation is taken as stale)
StalePortsAll(tbl) == {p \in PortSet : tbl[p] # Free}

StalePorts(tbl) == {p \in PortSet : tbl[p] # Free /\ tbl[p] \notin ExistingInstances}

\* an error of its first SELECT leaves importOrphanedContainers uncaught and
\* reaches the route's catch, which answers 500
RecCleanup(s) ==
  /\ req[s].pc = "rec_cleanup"
  /\ \/ /\ ports' = [p \in PortSet |->
                       IF p \in StalePorts(ports) THEN Free ELSE ports[p]]
        /\ req' = [req EXCEPT ![s] = [req[s] EXCEPT !.pc = "rec_check"]]
        /\ UNCHANGED faults
     \/ /\ CanFault
        /\ faults' = faults + 1
        /\ req' = [req EXCEPT ![s] = Finish(req[s], "db")]
        /\ UNCHANGED ports
  /\ UNCHANGED <<instances, ollama, containers, nextId, nextCid>>
  /\ UNCHANGED others

\* extractGpuId: the device the container was given, else 'unknown'
ExtractGpuId(c) == IF c.gpu = "" THEN "unknown" ELSE c.gpu

\* the orphan the import loop handles next (the daemon lists newest first)
NextOrphan(todo) == CHOOSE c \in todo : \A d \in todo : d <= c

\* the head of the import loop: extractPort and the check of
\* allocated_ports; a skipped orphan is dropped (so is one that is gone from
\* the daemon: its inspect rejects)
RecCheck(s) ==
  /\ req[s].pc = "rec_check"
  /\ IF req[s].todo = {}
     THEN req' = [req EXCEPT ![s] = EndPass(req[s])]
     ELSE LET c == NextOrphan(req[s].todo) IN
          req' = [req EXCEPT ![s] =
                    IF \/ ~Present(c)
                       \/ containers[c].port = None
                       \/ ports[containers[c].port] # Free
                    THEN [req[s] EXCEPT !.todo = @ \ {c}]
                    ELSE [req[s] EXCEPT !.pc = "rec_inspect", !.cur = c,
                                        !.id = containers[c].uuid,
                                        !.name = containers[c].name,
                                        !.port = containers[c].port,
                                        !.gpu = ExtractGpuId(containers[c]),
                                        !.todo = @ \ {c}]]
  /\ UNCHANGED <<instances, ollama, ports, containers, nextId, nextCid, faults>>
  /\ UNCHANGED others

\* the loop goes on with the next orphan
NextRound(r) == [r EXCEPT !.pc = "rec_check", !.cur = None, !.id = None,
                          !.port = None, !.drv = "none", !.name = "", !.gpu = ""]

\* containerStatus.State.Running ? 'running' : 'stopped'
InspectStatus(c) == IF c.running THEN "running" ELSE "stopped"

\* dockerContainer.inspect() of the import: the status to store follows
\* State.Running; a rejection is recorded under failed
RecInspect(s) ==
  /\ req[s].pc = "rec_inspect"
  /\ req' = [req EXCEPT ![s] =
               IF Present(req[s].cur)
               THEN [req[s] EXCEPT !.pc = "rec_insert",
                                   !.drv = InspectStatus(containers[req[s].cur])]
               ELSE NextRound(req[s])]
  /\ UNCHANGED <<instances, ollama, ports, containers, nextId, nextCid, faults>>
  /\ UNCHANGED others

\* the values the INSERT of the import stores: what the orphan entry holds
\* and the status of the inspect
ImportedRow(r) ==
  [Row(r.port, r.cur, r.drv) EXCEPT !.name = r.name, !.gpu = r.gpu,
                                    !.imported = TRUE]

\* INSERT INTO instances of the import: id is the uuid parsed from the
\* container name; a rejected insert is recorded under failed and the loop
\* goes on
RecInsert(s) ==
  /\ req[s].pc = "rec_insert"
  /\ \/ /\ CanInsertRow(instances, req[s].id, req[s].port)
        /\ instances' = [instances EXCEPT ![req[s].id] =
                           ImportedRow(req[s])]
        /\ req' = [req EXCEPT ![s] = [req[s] EXCEPT !.pc = "rec_reserve"]]
        /\ UNCHANGED faults
     \/ /\ ~CanInsertRow(instances, req[s].id, req[s].port)
        /\ req' = [req EXCEPT ![s] = NextRound(req[s])]
        /\ UNCHANGED <<instances, faults>>
     \/ /\ CanFault
        /\ faults' = faults + 1
        /\ req' = [req EXCEPT ![s] = NextRound(req[s])]
        /\ UNCHANGED instances
  /\ UNCHANGED <<ollama, ports, containers, nextId, nextCid>>
  /\ UNCHANGED others

\* INSERT INTO allocated_ports of the import; a rejected insert is recorded
\* under failed, the instance row stays
RecReserve(s) ==
  /\ req[s].pc = "rec_reserve"
  /\ \/ /\ CanInsertPort(ports, req[s].port)
        /\ ports' = [ports EXCEPT ![req[s].port] = req[s].id]
        /\ req' = Observe([req EXCEPT ![s] = NextRound(req[s])], ports')
        /\ UNCHANGED faults
     \/ /\ ~CanInsertPort(ports, req[s].port)
        /\ req' = [req EXCEPT ![s] = NextRound(req[s])]
        /\ UNCHANGED <<ports, faults>>
     \/ /\ CanFault
        /\ faults' = faults + 1
        /\ req' = [req EXCEPT ![s] = NextRound(req[s])]
        /\ UNCHANGED ports
  /\ UNCHANGED <<instances, ollama, containers, nextId, nextCid>>
  /\ UNCHANGED others

\* ------------------------------------------------------- listing (GET /)
ListedTable(op) == IF op = "olist" THEN ollama ELSE instances

\* router.get('/') of either kind is called
BeginList(s, op, lim) ==
  /\ CanBegin(s, lim)
  /\ op \in {"vlist", "olist"}
  /\ req' = [req EXCEPT ![s] = [Idle EXCEPT !.op = op, !.pc = "list_read",
                                            !.f0 = faults]]
  /\ UNCHANGED <<instances, ollama, ports, containers, nextId, nextCid, faults>>
  /\ UNCHANGED others

\* the entry of a row before its container is inspected: the row itself
RowEntry(row) == [cid |-> row.cid, status |-> row.status, running |-> FALSE]

\* SELECT * FROM (ollama_)instances: an error answers 500 'Database error';
\* the rows with a container_id are then inspected
ListRead(s) ==
  /\ req[s].pc = "list_read"
  /\ \/ /\ LET table == ListedTable(req[s].op) IN
             req' = [req EXCEPT ![s] =
                       [req[s] EXCEPT !.pc = "list_inspect",
                                      !.pend = {i \in Stored(table) : table[i].cid # None},
                                      !.resp = [i \in Ids |->
                                                  IF table[i] = NoRow THEN NoEntry
                                                  ELSE RowEntry(table[i])]]]
        /\ UNCHANGED faults
     \/ /\ CanFault
        /\ faults' = faults + 1
        /\ req' = [req EXCEPT ![s] = Finish(req[s], "db")]
  /\ UNCHANGED <<instances, ollama, ports, containers, nextId, nextCid>>
  /\ UNCHANGED others

\* getContainerStatus: State.Status and State.Running of the inspect
ContainerStatus(e, c) ==
  [e EXCEPT !.status = IF c.running THEN "running" ELSE "exited",
            !.running = c.running]

\* (variant: the entry of a row whose inspect rejects stays the stored row)
ErrorEntryStored(e) == e

\* the catch around getContainerStatus: status 'error', running false
ErrorEntry(e) == [e EXCEPT !.status = "error", !.running = FALSE]

\* one of the inspects of Promise.all(rows.map(...)) settles
ListInspect(s) ==
  /\ req[s].pc = "list_inspect"
  /\ \E i \in req[s].pend :
       LET e == req[s].resp[i] IN
       \/ /\ Present(e.cid)
          /\ req' = [req EXCEPT ![s] =
                       [req[s] EXCEPT !.pend = @ \ {i},
                                      !.resp[i] = ContainerStatus(e, containers[e.cid])]]
          /\ UNCHANGED faults
       \/ /\ ~Present(e.cid)
          /\ req' = [req EXCEPT ![s] =
                       [req[s] EXCEPT !.pend = @ \ {i}, !.resp[i] = ErrorEntry(e)]]
          /\ UNCHANGED faults
       \/ /\ Present(e.cid)
          /\ CanFault
          /\ faults' = faults + 1
          /\ req' = [req EXCEPT ![s] =
                       [req[s] EXCEPT !.pend = @ \ {i}, !.resp[i] = ErrorEntry(e)]]
  /\ UNCHANGED <<instances, ollama, ports, containers, nextId, nextCid>>
  /\ UNCHANGED others

\* res.json(instances) once every inspect has settled
ListReply(s) ==
  /\ req[s].pc = "list_inspect"
  /\ req[s].pend = {}
  /\ req' = [req EXCEPT ![s] = Finish(req[s], "ok")]
  /\ UNCHANGED <<instances, ollama, ports, containers, nextId, nextCid, faults>>
  /\ UNCHANGED others

\* ------------------------------------------------- out-of-band (docker CLI)
\* somebody runs a container named vllm-{name}-{fresh uuid} publishing port p
ExtRun(name, p) ==
  /\ nextCid <= MaxCids
  /\ nextId <= MaxIds
  /\ containers' = [containers EXCEPT ![nextCid] =
                      [kind |-> "vllm", name |-> name, uuid |-> nextId, port |-> p,
                       running |-> ~HostPortBusy(nextCid, p),
                       cmdkey |-> "", gpu |-> "", tp |-> 0]]
  /\ nextCid' = nextCid + 1
  /\ nextId' = nextId + 1
  /\ UNCHANGED <<instances, ollama, ports, faults, req>>
  /\ UNCHANGED others

\* docker stop
ExtStop(c) ==
  /\ Present(c) /\ containers[c].running
  /\ containers' = [containers EXCEPT ![c].running = FALSE]
  /\ UNCHANGED <<instances, ollama, ports, nextId, nextCid, faults, req>>
  /\ UNCHANGED others

\* docker rm -f
ExtRemove(c) ==
  /\ Present(c)
  /\ containers' = [containers EXCEPT ![c] = NoCont]
  /\ UNCHANGED <<instances, ollama, ports, nextId, nextCid, faults, req>>
  /\ UNCHANGED others

\* ---------------------------------------------------------- specifications
InitEmpty ==
  /\ instances = [i \in Ids |-> NoRow]
  /\ ollama = [i \in Ids |-> NoRow]
  /\ containers = [c \in Cids |-> NoCont]
  /\ nextId = 1
  /\ nextCid = 1
  /\ faults = 0
  /\ req = [s \in Slots |-> Idle]
  /\ models = [i \in Ids |-> NoModels]

\* the port allocator alone, called concurrently; the table starts with any
\* set of reservations
InitAlloc ==
  /\ InitEmpty
  /\ ports \in [PortSet -> {Free, MaxIds}]
  /\ gpuInfo = <<>>
  /\ initialized = TRUE

NextAllocOnly ==
  \/ \E s \in Slots, id \in Ids : AllocCall(s, id)
  \/ \E s \in Slots : AllocRead(s)
  \/ \E s \in Slots : AllocInsert(s)

SpecAllocOnly == InitAlloc /\ [][NextAllocOnly]_vars

NextAlloc ==
  \/ \E s \in Slots, id \in Ids : AllocCall(s, id)
  \/ \E s \in Slots : AllocRead(s)
  \/ \E s \in Slots : AllocInsert(s)
  \/ \E p \in PortSet : ReleaseCall(p)
  \/ \E s \in Slots : Return(s)

SpecAlloc == InitAlloc /\ [][NextAlloc]_vars

\* the server after initializeDatabase on a fresh data directory, on a host
\* with one GPU
Init ==
  /\ InitEmpty
  /\ ports = [p \in PortSet |-> Free]
  /\ gpuInfo = <<[id |-> GpuName[1], free |-> MaxFree]>>
  /\ initialized = TRUE

\* the steps of the create, remove, update and reconcile handlers
StepsCore(s) ==
  \/ AllocRead(s)
  \/ AllocInsert(s)
  \/ OllamaList(s)
  \/ DockerCreate(s)
  \/ DockerStart(s)
  \/ InsertRow(s)
  \/ RmRead(s)
  \/ RmDocker(s)
  \/ RmRelease(s)
  \/ RmDelete(s)
  \/ UpRead(s)
  \/ UpStop(s)
  \/ UpRemove(s)
  \/ UpdateRow(s)
  \/ RecDetect(s)
  \/ RecCleanup(s)
  \/ RecCheck(s)
  \/ RecInspect(s)
  \/ RecInsert(s)
  \/ RecReserve(s)
  \/ Return(s)

\* the steps of all handlers
Steps(s) ==
  \/ StepsCore(s)
  \/ LifeRead(s)
  \/ LifeDocker(s)
  \/ LifeWrite(s)

External ==
  \/ \E name \in Names, p \in PortSet : ExtRun(name, p)
  \/ \E c \in Cids : ExtStop(c)
  \/ \E c \in Cids : ExtRemove(c)

\* selectOptimalGPU alone, on a host with any inventory of GPUs and a Store
\* holding any instances of the two kinds, running or stopped, on any device
GpuVals == {GpuName[k] : k \in 1..MaxGpus} \cup {"auto", ""}

StoreChoices ==
  {[kind |-> "none", status |-> "absent", gpu |-> ""]}
  \cup [kind : {"vllm", "ollama"}, status : {"running", "stopped"}, gpu : GpuVals]

\* instance i has port MIN_PORT + i - 1 and container i
Storable == {i \in Ids : i <= PortRange /\ i <= MaxCids}

ChosenRow(i, ch, kind) ==
  IF ch.kind = kind
  THEN [Row(MIN_PORT + i - 1, i, ch.status) EXCEPT !.name = "a", !.gpu = ch.gpu]
  ELSE NoRow

ChosenContainer(c, ch) ==
  IF ch.kind = "none" THEN NoCont
  ELSE [kind |-> ch.kind, name |-> "a", uuid |-> c, port |-> MIN_PORT + c - 1,
        running |-> (ch.status = "running"),
        cmdkey |-> CommandKey(ch.kind, ""), gpu |-> ch.gpu, tp |-> 0]

InitGPU ==
  /\ gpuInfo \in Inventories
  /\ initialized = TRUE
  /\ \E ch \in [Ids -> StoreChoices] :
       /\ \A i \in Ids \ Storable : ch[i].kind = "none"
       /\ instances = [i \in Ids |-> ChosenRow(i, ch[i], "vllm")]
       /\ ollama = [i \in Ids |-> ChosenRow(i, ch[i], "ollama")]
       /\ ports = [p \in PortSet |->
                     IF p - MIN_PORT + 1 \in Ids /\ ch[p - MIN_PORT + 1].kind # "none"
                     THEN p - MIN_PORT + 1 ELSE Free]
       /\ containers = [c \in Cids |-> IF c \in Ids THEN ChosenContainer(c, ch[c])
                                                      ELSE NoCont]
  /\ nextId = MaxIds + 1
  /\ nextCid = MaxCids + 1
  /\ faults = 0
  /\ req = [s \in Slots |-> Idle]
  /\ models = [i \in Ids |-> NoModels]

NextGPU ==
  \/ \E s \in Slots, g \in {"auto", "cpu", GpuName[1], NoSuchGpu} : SelectCall(s, g)
  \/ \E s \in Slots : Return(s)

SpecGPU == InitGPU /\ [][NextGPU]_vars

\* create requests with every body, served one after the other, on a host
\* with any inventory of GPUs
InitCreate ==
  /\ InitEmpty
  /\ ports = [p \in PortSet |-> Free]
  /\ gpuInfo \in Inventories
  /\ initialized = TRUE

NextCreate ==
  \/ \E s \in Slots, body \in Bodies : BeginVCreateReq(s, body, 1)
  \/ \E s \in Slots, body \in OllamaBodies : BeginOCreateReq(s, body, 1)
  \/ \E s \in Slots : AllocRead(s)
  \/ \E s \in Slots : AllocInsert(s)
  \/ \E s \in Slots : OllamaList(s)
  \/ \E s \in Slots : DockerCreate(s)
  \/ \E s \in Slots : DockerStart(s)
  \/ \E s \in Slots : InsertRow(s)
  \/ \E s \in Slots : Return(s)

SpecCreate == InitCreate /\ [][NextCreate]_vars

\* Ollama create requests served concurrently: express starts every handler
\* when its request arrives and the handlers interleave at their awaits
NextOllama ==
  \/ \E s \in Slots, name \in Names : BeginOCreate(s, name, NSlots)
  \/ \E s \in Slots : AllocRead(s)
  \/ \E s \in Slots : AllocInsert(s)
  \/ \E s \in Slots : OllamaList(s)
  \/ \E s \in Slots : DockerCreate(s)
  \/ \E s \in Slots : DockerStart(s)
  \/ \E s \in Slots : InsertRow(s)
  \/ \E s \in Slots : Return(s)

SpecOllama == Init /\ [][NextOllama]_vars

\* the Ollama routes: create, remove, pull and delete of a model, served one
\* after the other
NextModels ==
  \/ \E s \in Slots, name \in Names : BeginOCreate(s, name, 1)
  \/ \E s \in Slots, id \in Ids : BeginRemove(s, "oremove", id, 1)
  \/ \E s \in Slots, id \in Ids, m \in ModelNames : BeginPull(s, id, m, 1)
  \/ \E s \in Slots, id \in Ids, m \in ModelNames : BeginModelDelete(s, id, m, 1)
  \/ \E s \in Slots : AllocRead(s)
  \/ \E s \in Slots : AllocInsert(s)
  \/ \E s \in Slots : OllamaList(s)
  \/ \E s \in Slots : DockerCreate(s)
  \/ \E s \in Slots : DockerStart(s)
  \/ \E s \in Slots : InsertRow(s)
  \/ \E s \in Slots : RmRead(s)
  \/ \E s \in Slots : RmDocker(s)
  \/ \E s \in Slots : RmRelease(s)
  \/ \E s \in Slots : RmDelete(s)
  \/ \E s \in Slots : PullRead(s)
  \/ \E s \in Slots : PullInsert(s)
  \/ \E s \in Slots : PullUpstream(s)
  \/ \E s \in Slots : PullUpdate(s)
  \/ \E s \in Slots : MdRead(s)
  \/ \E s \in Slots : MdUpstream(s)
  \/ \E s \in Slots : MdDelete(s)
  \/ \E s \in Slots : Return(s)

SpecModels == Init /\ [][NextModels]_vars

\* creates, removes, updates and reconciles served one after the other,
\* with the docker CLI used on the side
NextCore ==
  \/ \E s \in Slots, name \in Names : BeginVCreate(s, name, 1)
  \/ \E s \in Slots, name \in Names : BeginOCreate(s, name, 1)
  \/ \E s \in Slots, op \in {"vremove", "oremove"}, id \in Ids : BeginRemove(s, op, id, 1)
  \/ \E s \in Slots, id \in Ids, name \in Names : BeginVUpdate(s, id, name, 1)
  \/ \E s \in Slots, auto \in BOOLEAN : BeginReconcile(s, auto, 1)
  \/ \E s \in Slots : StepsCore(s)
  \/ External

SpecCore == Init /\ [][NextCore]_vars

\* as NextCore, with the reconcile requested twice in a row
NextImport ==
  \/ \E s \in Slots, name \in Names : BeginVCreate(s, name, 1)
  \/ \E s \in Slots, name \in Names : BeginOCreate(s, name, 1)
  \/ \E s \in Slots, op \in {"vremove", "oremove"}, id \in Ids : BeginRemove(s, op, id, 1)
  \/ \E s \in Slots, id \in Ids, name \in Names : BeginVUpdate(s, id, name, 1)
  \/ \E s \in Slots : BeginReconcileTwice(s, 1)
  \/ \E s \in Slots : StepsCore(s)
  \/ External

SpecImport == Init /\ [][NextImport]_vars

\* creates and reconciles served concurrently
NextRace ==
  \/ \E s \in Slots, name \in Names : BeginVCreate(s, name, NSlots)
  \/ \E s \in Slots, auto \in BOOLEAN : BeginReconcile(s, auto, NSlots)
  \/ \E s \in Slots : AllocRead(s)
  \/ \E s \in Slots : AllocInsert(s)
  \/ \E s \in Slots : DockerCreate(s)
  \/ \E s \in Slots : DockerStart(s)
  \/ \E s \in Slots : InsertRow(s)
  \/ \E s \in Slots : RecDetect(s)
  \/ \E s \in Slots : RecCleanup(s)
  \/ \E s \in Slots : RecCheck(s)
  \/ \E s \in Slots : RecInspect(s)
  \/ \E s \in Slots : RecInsert(s)
  \/ \E s \in Slots : RecReserve(s)
  \/ \E s \in Slots : Return(s)

SpecRace == Init /\ [][NextRace]_vars

\* updates, starts, stops, restarts and removes of vLLM instances served
\* concurrently (a create is accepted when no request is in flight)
NextSameId ==
  \/ \E s \in Slots, name \in Names : BeginVCreate(s, name, 1)
  \/ \E s \in Slots, id \in Ids : BeginRemove(s, "vremove", id, NSlots)
  \/ \E s \in Slots, id \in Ids, name \in Names : BeginVUpdate(s, id, name, NSlots)
  \/ \E s \in Slots, op \in {"vstart", "vstop", "vrestart"}, id \in Ids :
        BeginLife(s, op, id, NSlots)
  \/ \E s \in Slots : AllocRead(s)
  \/ \E s \in Slots : AllocInsert(s)
  \/ \E s \in Slots : DockerCreate(s)
  \/ \E s \in Slots : DockerStart(s)
  \/ \E s \in Slots : InsertRow(s)
  \/ \E s \in Slots : RmRead(s)
  \/ \E s \in Slots : RmDocker(s)
  \/ \E s \in Slots : RmRelease(s)
  \/ \E s \in Slots : RmDelete(s)
  \/ \E s \in Slots : UpRead(s)
  \/ \E s \in Slots : UpStop(s)
  \/ \E s \in Slots : UpRemove(s)
  \/ \E s \in Slots : UpdateRow(s)
  \/ \E s \in Slots : LifeRead(s)
  \/ \E s \in Slots : LifeDocker(s)
  \/ \E s \in Slots : LifeWrite(s)
  \/ \E s \in Slots : Return(s)

SpecSameId == Init /\ [][NextSameId]_vars

\* creates and listings served one after the other, with docker stop and
\* docker rm used on the side
NextList ==
  \/ \E s \in Slots, name \in Names : BeginVCreate(s, name, 1)
  \/ \E s \in Slots, name \in Names : BeginOCreate(s, name, 1)
  \/ \E s \in Slots, op \in {"vlist", "olist"} : BeginList(s, op, 1)
  \/ \E s \in Slots : AllocRead(s)
  \/ \E s \in Slots : AllocInsert(s)
  \/ \E s \in Slots : OllamaList(s)
  \/ \E s \in Slots : DockerCreate(s)
  \/ \E s \in Slots : DockerStart(s)
  \/ \E s \in Slots : InsertRow(s)
  \/ \E s \in Slots : ListRead(s)
  \/ \E s \in Slots : ListInspect(s)
  \/ \E s \in Slots : ListReply(s)
  \/ \E s \in Slots : Return(s)
  \/ \E c \in Cids : ExtStop(c)
  \/ \E c \in Cids : ExtRemove(c)

SpecList == Init /\ [][NextList]_vars

\* creates and listings with orphan check served one after the other, with
\* the docker CLI used on the side
NextListCheck ==
  \/ \E s \in Slots, name \in Names : BeginVCreate(s, name, 1)
  \/ \E s \in Slots : BeginListCheck(s, 1)
  \/ \E s \in Slots : AllocRead(s)
  \/ \E s \in Slots : AllocInsert(s)
  \/ \E s \in Slots : DockerCreate(s)
  \/ \E s \in Slots : DockerStart(s)
  \/ \E s \in Slots : InsertRow(s)
  \/ \E s \in Slots : RecDetect(s)
  \/ \E s \in Slots : RecCleanup(s)
  \/ \E s \in Slots : RecCheck(s)
  \/ \E s \in Slots : RecInspect(s)
  \/ \E s \in Slots : RecInsert(s)
  \/ \E s \in Slots : RecReserve(s)
  \/ \E s \in Slots : ListRead(s)
  \/ \E s \in Slots : ListInspect(s)
  \/ \E s \in Slots : ListReply(s)
  \/ \E s \in Slots : Return(s)
  \/ External

SpecListCheck == Init /\ [][NextListCheck]_vars

\* the steps of the create handler
CreateSteps ==
  \E s \in Slots :
    \/ AllocRead(s) \/ AllocInsert(s) \/ DockerCreate(s) \/ DockerStart(s)
    \/ InsertRow(s)

\* the steps of the two reads
ReadSteps ==
  \E s \in Slots :
    \/ RecDetect(s) \/ RecCleanup(s) \/ RecCheck(s) \/ RecInspect(s)
    \/ RecInsert(s) \/ RecReserve(s)
    \/ ListRead(s) \/ ListInspect(s) \/ ListReply(s)
    \/ Return(s)

NextReads ==
  \/ NextListCheck
  \/ \E s \in Slots : BeginList(s, "vlist", 1)

\* as SpecListCheck with GET / as well, where clients keep sending both reads
\* and the event loop keeps running every handler it has accepted
SpecReads ==
  /\ Init
  /\ [][NextReads]_vars
  /\ WF_vars(\E s \in Slots : BeginList(s, "vlist", 1))
  /\ WF_vars(\E s \in Slots : BeginListCheck(s, 1))
  /\ WF_vars(ReadSteps)
  /\ WF_vars(CreateSteps)

\* pullModelStream alone: the calls of a caller that pulls one model after
\* the other
NextStream ==
  \/ \E s \in Slots : BeginPullStream(s, 1)
  \/ \E s \in Slots : StreamData(s)
  \/ \E s \in Slots : StreamEnd(s)
  \/ \E s \in Slots : Return(s)

SpecStream == Init /\ [][NextStream]_vars

\* container names built and parsed again, one after the other
NextNames ==
  \/ \E s \in Slots : BeginName(s, 1)
  \/ \E s \in Slots : ParseName(s)
  \/ \E s \in Slots : Return(s)

SpecNames == Init /\ [][NextNames]_vars

\* the lifecycle routes of the vLLM instances, one request after the other,
\* while containers stop and disappear out of band
NextLife ==
  \/ \E s \in Slots, name \in Names : BeginVCreate(s, name, 1)
  \/ \E s \in Slots, op \in {"vstart", "vstop", "vrestart"}, id \in Ids :
        BeginLife(s, op, id, 1)
  \/ \E s \in Slots : AllocRead(s)
  \/ \E s \in Slots : AllocInsert(s)
  \/ \E s \in Slots : DockerCreate(s)
  \/ \E s \in Slots : DockerStart(s)
  \/ \E s \in Slots : InsertRow(s)
  \/ \E s \in Slots : LifeRead(s)
  \/ \E s \in Slots : LifeDocker(s)
  \/ \E s \in Slots : LifeWrite(s)
  \/ \E s \in Slots : Return(s)
  \/ \E c \in Cids : ExtStop(c)
  \/ \E c \in Cids : ExtRemove(c)

SpecLife == Init /\ [][NextLife]_vars

\* creates and updates of the vLLM instances, one request after the other
NextUpdate ==
  \/ \E s \in Slots, name \in Names : BeginVCreate(s, name, 1)
  \/ \E s \in Slots, id \in Ids, name \in Names : BeginVUpdate(s, id, name, 1)
  \/ \E s \in Slots : AllocRead(s)
  \/ \E s \in Slots : AllocInsert(s)
  \/ \E s \in Slots : DockerCreate(s)
  \/ \E s \in Slots : DockerStart(s)
  \/ \E s \in Slots : InsertRow(s)
  \/ \E s \in Slots : UpRead(s)
  \/ \E s \in Slots : UpStop(s)
  \/ \E s \in Slots : UpRemove(s)
  \/ \E s \in Slots : UpdateRow(s)
  \/ \E s \in Slots : Return(s)

SpecUpdate == Init /\ [][NextUpdate]_vars

\* creates of vLLM instances with a tensorParallelSize, on every inventory
NextTensor ==
  \/ \E s \in Slots, pref \in {"", "cpu", GpuName[1]}, tps \in 1..MaxTensor :
        BeginVCreateTensor(s, pref, tps, 1)
  \/ \E s \in Slots : AllocRead(s)
  \/ \E s \in Slots : AllocInsert(s)
  \/ \E s \in Slots : DockerCreate(s)
  \/ \E s \in Slots : DockerStart(s)
  \/ \E s \in Slots : InsertRow(s)
  \/ \E s \in Slots : Return(s)

SpecTensor == InitCreate /\ [][NextTensor]_vars

\* the server from its start, before any detection has finished: GET /gpu
\* and POST /refresh-gpu, served concurrently
InitDiscovery ==
  /\ InitEmpty
  /\ ports = [p \in PortSet |-> Free]
  /\ gpuInfo = <<>>
  /\ initialized = FALSE

NextDiscovery ==
  \/ \E s \in Slots : BeginGetGPUInfo(s, NSlots)
  \/ \E s \in Slots : BeginRefresh(s, NSlots)
  \/ \E s \in Slots : DetectDone(s)
  \/ \E s \in Slots : Return(s)

SpecDiscovery == InitDiscovery /\ [][NextDiscovery]_vars

\* every request, served one after the other
Next ==
  \/ \E s \in Slots, name \in Names : BeginVCreate(s, name, 1)
  \/ \E s \in Slots, name \in Names : BeginOCreate(s, name, 1)
  \/ \E s \in Slots, op \in {"vremove", "oremove"}, id \in Ids : BeginRemove(s, op, id, 1)
  \/ \E s \in Slots, op \in LifeOps, id \in Ids : BeginLife(s, op, id, 1)
  \/ \E s \in Slots, id \in Ids, name \in Names : BeginVUpdate(s, id, name, 1)
  \/ \E s \in Slots, auto \in BOOLEAN : BeginReconcile(s, auto, 1)
  \/ \E s \in Slots : Steps(s)
  \/ External

Spec == Init /\ [][Next]_vars

\* ------------------------------------------------------------- properties
AllocDone(s) == req[s].op = "alloc" /\ req[s].pc = "done"

\* C3: two allocatePort calls whose read and insert steps interleave and
\* that both succeed return different ports.
C3_DistinctPorts ==
  \A s1, s2 \in Slots :
    (s1 # s2 /\ AllocDone(s1) /\ AllocDone(s2)
       /\ req[s1].res = "ok" /\ req[s2].res = "ok")
    => req[s1].port # req[s2].port

C3_Witness ==
  \E s1, s2 \in Slots :
    /\ s1 # s2 /\ AllocDone(s1) /\ AllocDone(s2)
    /\ req[s1].res = "ok" /\ req[s2].res = "ok"
    /\ req[s1].port # None /\ req[s2].port # None

\* C4: allocatePort is linearizable: a call fails only if at some instant
\* between its invocation and its response no port of the range was
\* unreserved (never because a concurrent call picked the same candidate).
C4_FailsOnlyWhenExhausted ==
  \A s \in Slots :
    (AllocDone(s) /\ req[s].res # "ok") => req[s].full

\* C5: when every port of the range is reserved, allocatePort fails with the
\* exhaustion error and leaves allocated_ports and both instance tables
\* unchanged.
C5_ExhaustedNoEffect ==
  [][\A s \in Slots :
       (req[s].pc = "alloc_read" /\ Full(ports) /\ req'[s].pc # "alloc_read")
       => /\ req'[s].pc = "done"
          /\ req'[s].res = "exhausted"
          /\ ports' = ports
          /\ instances' = instances
          /\ ollama' = ollama]_vars

C5_Witness ==
  \E s \in Slots : AllocDone(s) /\ req[s].res = "exhausted" /\ Full(ports)

\* C1: no two stored instance records, across both instance tables, have the
\* same port.
C1_UniquePorts ==
  /\ \A i, j \in Ids :
       (i # j /\ instances[i] # NoRow /\ instances[j] # NoRow)
       => instances[i].port # instances[j].port
  /\ \A i, j \in Ids :
       (i # j /\ ollama[i] # NoRow /\ ollama[j] # NoRow)
       => ollama[i].port # ollama[j].port
  /\ \A i, j \in Ids :
       (instances[i] # NoRow /\ ollama[j] # NoRow)
       => instances[i].port # ollama[j].port

\* C2: when no request is in flight, every stored instance record of either
\* kind has the row of allocated_ports with its port and its id.
C2_ReservationPerRecord ==
  Quiescent =>
    /\ \A i \in Ids : instances[i] # NoRow => ports[instances[i].port] = i
    /\ \A i \in Ids : ollama[i] # NoRow => ports[ollama[i].port] = i

RemoveCommits(s) ==
  /\ req[s].op \in {"vremove", "oremove"}
  /\ req[s].pc = "rm_delete"
  /\ req'[s].pc = "done"
  /\ req'[s].res = "ok"

\* C6: when the remove of an instance succeeds, no record with that id is
\* left, no reservation row for its port, and its container is gone from the
\* daemon; an allocate that reads the table then returns that port when no
\* lower port is free.
C6_RemoveFreesAll ==
  [][\A s \in Slots :
       RemoveCommits(s) =>
         /\ instances'[req[s].id] = NoRow \/ req[s].op = "oremove"
         /\ ollama'[req[s].id] = NoRow \/ req[s].op = "vremove"
         /\ ports'[req[s].port] = Free
         /\ req[s].old # None => containers'[req[s].old] = NoCont
         /\ FirstAvailable(Reserved(ports')) <= req[s].port
         /\ (\A q \in PortSet : q < req[s].port => ports'[q] # Free)
              => FirstAvailable(Reserved(ports')) = req[s].port]_vars

C6_Witness ==
  \E s \in Slots :
    /\ req[s].op \in {"vremove", "oremove"} /\ req[s].pc = "done"
    /\ req[s].res = "ok" /\ req[s].drv = "ok"
    /\ ports[req[s].port] = Free
    /\ nextId > 1

CreateFailed(s) ==
  /\ req[s].op \in {"vcreate", "ocreate"}
  /\ req[s].pc = "done"
  /\ req[s].res # "ok"

\* C7: when a create request fails after its port was allocated, the
\* reservation made for it is released before the error response.
C7_FailedCreateReleasesPort ==
  \A s \in Slots :
    (CreateFailed(s) /\ req[s].port # None) => ports[req[s].port] # req[s].id

\* C8: when a create request fails after the daemon accepted the container,
\* the container is removed before the request returns.
C8_FailedCreateRemovesContainer ==
  \A s \in Slots :
    (CreateFailed(s) /\ req[s].made) => ~Present(req[s].cid)

KeepsCid(old, new) == (old # NoRow /\ new # NoRow /\ old.cid # None) => new.cid = old.cid

\* C9 (as stated): once the container_id of a record is set, it never changes
\* until the record is removed, a PUT update included.
C9_CidImmutable ==
  [][\A i \in Ids : /\ KeepsCid(instances[i], instances'[i])
                    /\ KeepsCid(ollama[i], ollama'[i])]_vars

UpdateCommits(s) ==
  /\ req[s].op = "vupdate"
  /\ req[s].pc = "update_row"
  /\ req'[s].pc = "done"
  /\ req'[s].res = "ok"

\* C9 (amended): the container_id of a record, once set, changes only when a
\* PUT update of that instance succeeds, and a successful update stores the
\* id of the container it created; the records of Ollama instances never
\* change their container_id.
C9_CidChangesOnlyByUpdate ==
  [][/\ \A i \in Ids :
          \/ KeepsCid(instances[i], instances'[i])
          \/ \E s \in Slots : UpdateCommits(s) /\ req[s].id = i
     /\ \A i \in Ids : KeepsCid(ollama[i], ollama'[i])
     /\ \A s \in Slots :
          (UpdateCommits(s) /\ instances[req[s].id] # NoRow)
          => instances'[req[s].id].cid = req[s].cid]_vars

C9_Witness ==
  \E s \in Slots :
    /\ req[s].op = "vupdate" /\ req[s].pc = "done" /\ req[s].res = "ok"
    /\ req[s].old # None
    /\ instances[req[s].id] # NoRow
    /\ instances[req[s].id].cid = req[s].cid
    /\ req[s].cid # req[s].old

\* C10: removing an instance of either kind whose container no longer exists
\* at the daemon succeeds: the reservation is released and the record is
\* deleted.
C10_RemoveOfGoneSucceeds ==
  \A s \in Slots :
    (req[s].op \in {"vremove", "oremove"} /\ req[s].pc = "done" /\ req[s].drv = "gone")
    => /\ req[s].res = "ok"
       /\ TableOf(req[s].op)[req[s].id] = NoRow
       /\ ports[req[s].port] = Free

\* C11: when the driver's remove fails for a reason other than the container
\* being absent, the remove request ends with an error and, from the failure
\* to its response, the instance tables and allocated_ports stay as they were.
C11_FailedRemoveKeepsStore ==
  [][\A s \in Slots :
       (req'[s].op \in {"vremove", "oremove"} /\ req'[s].drv = "error")
       => /\ req'[s].pc = "done"
          /\ req'[s].res = "driver"
          /\ instances' = instances
          /\ ollama' = ollama
          /\ ports' = ports]_vars

C11_Witness ==
  \E s \in Slots :
    /\ req[s].op \in {"vremove", "oremove"} /\ req[s].pc = "done"
    /\ req[s].drv = "error" /\ req[s].res = "driver"
    /\ Present(req[s].old)
    /\ TableOf(req[s].op)[req[s].id] # NoRow
    /\ TableOf(req[s].op)[req[s].id].cid = req[s].old
    /\ ports[req[s].port] = req[s].id

\* C12: stopping an instance that is already stopped (its record has status
\* stopped and its container is not running) succeeds and leaves the record
\* and the container as they are.
C12_StopOfStoppedSucceeds ==
  \A s \in Slots :
    (/\ req[s].op \in {"vstop", "ostop"} /\ req[s].pc = "done"
     /\ req[s].drv = "not_modified"
     /\ TableOf(req[s].op)[req[s].id].status = "stopped")
    => req[s].res = "ok"

\* C13: for start, stop and restart, when the driver call succeeded the
\* request reports success, also when the UPDATE of the status fails.
C13_DriverSuccessIsSuccess ==
  \A s \in Slots :
    (req[s].op \in LifeOps /\ req[s].pc = "done" /\ req[s].drv = "ok")
    => req[s].res = "ok"

\* C14: a create request without name or without modelName (an Ollama create
\* without name) is answered with 400 and has no side effect: no port is
\* reserved, no container is created, no record is written.
C14_InvalidCreateRejected ==
  [][\A s \in Slots :
       (\/ req'[s].op = "vcreate" /\ (req'[s].name = "" \/ req'[s].model = "")
        \/ req'[s].op = "ocreate" /\ req'[s].name = "")
       => /\ req'[s].pc = "done"
          /\ req'[s].res = "validation"
          /\ req'[s].port = None /\ ~req'[s].made
          /\ ports' = ports
          /\ containers' = containers
          /\ instances' = instances
          /\ ollama' = ollama]_vars

C14_Witness ==
  \E s \in Slots :
    /\ req[s].op = "vcreate" /\ req[s].pc = "done" /\ req[s].res = "validation"
    /\ req[s].name # "" /\ req[s].model = ""

\* C15: every instance created with requireAuth = false has a NULL api_key
\* and a container whose command has no --api-key argument.
C15_NoAuthNoKey ==
  \A s \in Slots :
    (/\ req[s].op = "vcreate" /\ req[s].pc = "done" /\ req[s].res = "ok"
     /\ ~req[s].auth /\ Present(req[s].cid))
    => /\ instances[req[s].id].key = ""
       /\ containers[req[s].cid].cmdkey = ""

\* C16: a create request whose gpuSelection names a GPU id that is not
\* detected fails, and fails before any side effect: no port reserved, no
\* container created, no record written (no daemon or database error being
\* involved).
C16_UnknownGpuFails ==
  \A s \in Slots :
    (/\ req[s].op = "vcreate" /\ req[s].pc = "done"
     /\ faults = 0
     /\ req[s].pref \notin {"auto", "cpu"}
     /\ \A k \in 1..Len(gpuInfo) : gpuInfo[k].id # req[s].pref)
    => /\ req[s].res # "ok"
       /\ req[s].port = None
       /\ ~req[s].made
       /\ instances[req[s].id] = NoRow

\* the number of stored instances of both kinds with status running on GPU g
RunningOn(g) ==
  Cardinality({i \in Ids : instances[i].status = "running" /\ instances[i].gpu = g})
  + Cardinality({i \in Ids : ollama[i].status = "running" /\ ollama[i].gpu = g})

\* the order of the GPU policy on the detected GPUs k and j: fewer running
\* instances first, then more free memory, then the lower id
Precedes(k, j) ==
  LET ck == RunningOn(gpuInfo[k].id)
      cj == RunningOn(gpuInfo[j].id) IN
  \/ ck < cj
  \/ ck = cj /\ gpuInfo[k].free > gpuInfo[j].free
  \/ ck = cj /\ gpuInfo[k].free = gpuInfo[j].free /\ k < j

C18_OneOllamaContainer == Cardinality(ExistingOllama) <= 1

\* C19: after an Ollama instance is removed no model record with its
\* instance_id remains: in every reachable state the instance_id of each row
\* of ollama_models is the id of a row of ollama_instances.
C19_ModelsHaveInstance ==
  \A i \in Ids, m \in ModelNames :
    models[i][m] # "none" => ollama[i] # NoRow

\* the record and the reservation an import of container c leaves, in the
\* tables insts and prts
ImportedAs(insts, prts, c, cont) ==
  /\ insts[cont.uuid] # NoRow
  /\ insts[cont.uuid].cid = c
  /\ insts[cont.uuid].name = cont.name
  /\ insts[cont.uuid].port = cont.port
  /\ insts[cont.uuid].imported
  /\ prts[cont.port] = cont.uuid

\* the port of the container is reserved by an existing instance other than
\* the one holding the container
ReservedByOther(insts, prts, c, cont) ==
  /\ prts[cont.port] # Free
  /\ insts[prts[cont.port]] # NoRow
  /\ insts[prts[cont.port]].cid # c

\* C20: a reconcile with import enabled, in which no daemon or database
\* error occurs, leaves for every container vllm-{name}-{uuid} it detected
\* as orphan (its id in no record), whose host port can be extracted and is
\* not reserved by an existing instance, a record with id = uuid, that name,
\* that port and container_id, config.imported = true and the reservation of
\* the port for that id; the status it inserts is running iff the inspect of
\* the import saw the container running.
C20_ImportInsertsOrphans ==
  [][\A s \in Slots :
       /\ (req[s].pc = "rec_inspect" /\ req'[s].pc = "rec_insert")
          => (req'[s].drv = "running") = containers[req[s].cur].running
       /\ (req[s].pc = "rec_insert" /\ req'[s].pc = "rec_reserve")
          => /\ instances'[req[s].id].status \in {"running", "stopped"}
             /\ (instances'[req[s].id].status = "running") = (req[s].drv = "running")
       /\ (/\ req[s].op = "reconcile" /\ req[s].auto
           /\ req[s].pc # "done" /\ req'[s].pc = "done" /\ faults' = req[s].f0)
          => \A c \in req'[s].seen :
               (Present(c)' /\ containers'[c].port # None)
               => \/ ImportedAs(instances', ports', c, containers'[c])
                  \/ ReservedByOther(instances', ports', c, containers'[c])]_vars

C22_ImportAtomic ==
  \A i \in Ids :
    (/\ instances[i] # NoRow
     /\ instances[i].imported
     /\ \A s \in Slots : ~(req[s].pc = "rec_reserve" /\ req[s].id = i))
    => ports[instances[i].port] = i

\* C23: when a reconcile pass with import enabled completes, having met no
\* error, every row of allocated_ports names an instance that has a record
\* (in instances or in ollama_instances), whether or not the pass detected
\* an orphan.
C23_NoStaleReservationAfterPass ==
  [][\A s \in Slots :
       (/\ req[s].op = "reconcile" /\ req[s].auto
        /\ req[s].pc # "done" /\ req'[s].pc = "done"
        /\ faults' = req[s].f0)
       => \A p \in PortSet :
            ports'[p] # Free
            => ports'[p] \in Stored(instances') \cup Stored(ollama')]_vars

\* C24: while a create has reserved its port and started its container but
\* not yet inserted its record, and no error occurs, no step of a reconcile
\* deletes that reservation or inserts a record under the create's id, and
\* the create's INSERT succeeds and stores the create's own record.
C24_ReconcileExcludesCreate ==
  [][\A s \in Slots :
       (/\ req[s].op = "vcreate" /\ req[s].pc = "insert_row"
        /\ ports[req[s].port] = req[s].id
        /\ instances[req[s].id] = NoRow
        /\ faults' = 0)
       => /\ ports'[req[s].port] = req[s].id
          /\ req'[s] = req[s] => instances'[req[s].id] = NoRow
          /\ req'[s] # req[s] => /\ req'[s].res = "ok"
                                 /\ instances'[req[s].id] = CreatedRow(req[s])]_vars

\* C25: requests on one instance id are serialized, so that when all
\* requests are answered and no error occurred, every running container the
\* manager created is the container_id of a record whose port is reserved
\* for it (the final state of a remove and an update in either order).
C25_SerializedPerId ==
  (Quiescent /\ faults = 0)
  => \A c \in Cids :
       (containers[c].kind = "vllm" /\ containers[c].running)
       => \E i \in Ids : /\ instances[i] # NoRow
                          /\ instances[i].cid = c
                          /\ ports[instances[i].port] = i

\* C26: a listing whose SELECT succeeded answers with success and one entry
\* per stored record; the entry of a record whose container the daemon does
\* not have when it is inspected has status error and running false; no step
\* of a listing changes a table.
C26_ListToleratesDriverErrors ==
  [][\A s \in Slots :
       (req[s].op \in {"vlist", "olist"} /\ req'[s] # req[s])
       => /\ <<instances, ollama, ports, models>>' = <<instances, ollama, ports, models>>
          /\ \A i \in req[s].pend \ req'[s].pend :
               ~Present(req[s].resp[i].cid)
               => (req'[s].resp[i].status = "error" /\ ~req'[s].resp[i].running)
          /\ (req[s].pc = "list_inspect" /\ req'[s].pc = "done")
             => /\ req'[s].res = "ok"
                /\ {i \in Ids : req'[s].resp[i] # NoEntry}
                     = Stored(ListedTable(req[s].op))]_vars

\* a listing has answered with the entry of a record whose container was
\* removed at the daemon, next to the entry of a record whose container runs
C26_Witness ==
  \E s \in Slots :
    /\ req[s].op \in {"vlist", "olist"} /\ req[s].pc = "done" /\ req[s].res = "ok"
    /\ \E i, j \in Ids :
         /\ req[s].resp[i].status = "error"
         /\ ~Present(req[s].resp[i].cid)
         /\ req[s].resp[j].running

\* C27: a list-with-reconcile read is never answered with an error because
\* its reconciliation failed: whenever it is answered before its SELECT of
\* the instances, or after that SELECT succeeded, the answer is a success.
C27_ReadSurvivesReconcileFailure ==
  [][\A s \in Slots :
       (/\ req[s].op = "listcheck"
        /\ req[s].pc \notin {"done", "list_read"}
        /\ req'[s].pc = "done")
       => req'[s].res = "ok"]_vars

\* the record says running while its container does not run
StaleRunning(i) ==
  /\ instances[i].status = "running"
  /\ instances[i].cid # None
  /\ ~(Present(instances[i].cid) /\ containers[instances[i].cid].running)

\* C28: when the container of an instance is stopped or removed out-of-band
\* and the reads keep being served, the stored status of the instance
\* eventually is no longer running (getGPUUsage, which counts the rows with
\* status running, then no longer counts it).
C28_StatusEventuallyConsistent ==
  \A i \in Ids : StaleRunning(i) ~> (instances[i].status # "running")

\* C29: when the stream of a pull ends without a success record, or breaks,
\* or the server cannot be reached, then once the pull is answered the model
\* record it inserted has status failed.
C29_FailedPullMarksFailed ==
  \A s \in Slots :
    (/\ req[s].op = "pull" /\ req[s].pc = "done"
     /\ req[s].res \notin {"not_found", "db"}
     /\ PullModelStream(req[s].up, Serving(req[s].port)) = "error")
    => models[req[s].id][req[s].model] = "failed"

\* C30: when the stream of a pull delivers a success record and then ends,
\* and no error occurs, then once the pull is answered the model record it
\* inserted has status ready and a read of the Ollama instance lists the
\* model as ready.
C30_SuccessfulPullMarksReady ==
  \A s \in Slots :
    (/\ req[s].op = "pull" /\ req[s].pc = "done"
     /\ faults = 0
     /\ ollama[req[s].id] # NoRow
     /\ PullModelStream(req[s].up, Serving(req[s].port)) = "ok")
    => /\ models[req[s].id][req[s].model] = "ready"
       /\ InstanceModels(req[s].id)[req[s].model] = "ready"

HasSuccess(up) == \E k \in 1..Len(up.frames) : up.frames[k] = "success"

\* C31: whether or not onProgress fails on a record, a pull whose records
\* arrive whole resolves exactly when the stream contained a success record
\* and ended.
C31_CallbackFailureKeepsOutcome ==
  \A s \in Slots :
    (/\ req[s].op = "pullstream" /\ req[s].pc = "done"
     /\ ~req[s].cut)
    => (req[s].res = "ok" <=> (req[s].up.ending = "end" /\ HasSuccess(req[s].up)))

\* C32: parsing the container name built from an instance name and a uuid
\* returns that name and that uuid.
C32_ParseInvertsFormat ==
  \A s \in Slots :
    (req[s].op = "name" /\ req[s].pc = "done")
    => req[s].parsed = req[s].parts

\* a name that holds a hyphen and a whole uuid has been built and parsed
C32_Witness ==
  \E s \in Slots :
    /\ req[s].op = "name" /\ req[s].pc = "done"
    /\ Len(req[s].parts.instanceName) > 36
    /\ \E j \in 1..Len(req[s].parts.instanceName) :
         req[s].parts.instanceName[j] = "-"
    /\ req[s].parsed = req[s].parts

\* the lifecycle request of slot s is answered in this step
LifeAnswered(s) ==
  /\ req[s].op \in {"vstart", "vstop", "vrestart"}
  /\ req[s].pc # "done"
  /\ req'[s].pc = "done"

\* what C33 says of the row and the answer, apart from the columns written
LifeOutcome(s) ==
  LET id == req[s].id IN
  /\ req'[s].res = "ok"
     => instances'[id].status =
          (IF req[s].op = "vstop" THEN "stopped" ELSE "running")
  /\ (req[s].pc = "life_docker" /\ req'[s].drv # "ok")
     => (req'[s].res # "ok" /\ instances' = instances)
  /\ \A j \in Ids \ {id} : instances'[j] = instances[j]
  /\ instances'[id] = [instances[id] EXCEPT !.status = instances'[id].status]
  /\ ollama' = ollama /\ ports' = ports

\* C33 as stated: the answered start, stop or restart wrote the status its
\* verb asks for, left the row alone when the driver failed, and set no
\* column but status.
C33_LifecycleWritesStatusOnly ==
  [][\A s \in Slots :
       LifeAnswered(s) => (LifeOutcome(s) /\ req'[s].wrote \subseteq {"status"})]_vars

\* C33 amended: the same, where the UPDATE also sets updated_at.
C33_LifecycleWritesStatus ==
  [][\A s \in Slots :
       LifeAnswered(s) =>
         (LifeOutcome(s) /\ req'[s].wrote \subseteq {"status", "updated_at"})]_vars

\* a stop has been answered with success and the row says stopped
C33_Witness ==
  \E s \in Slots :
    /\ req[s].op = "vstop" /\ req[s].pc = "done" /\ req[s].res = "ok"
    /\ instances[req[s].id].status = "stopped"
    /\ req[s].wrote # {}

\* C34: when an update is answered with the failure of creating or starting
\* the replacement and the container its row named is gone, the row has status
\* error, and it does not say running with the id of the removed container.
C34_FailedUpdateMarksError ==
  [][\A s \in Slots :
       (/\ req[s].op = "vupdate"
        /\ req[s].pc \in {"docker_create", "docker_start"}
        /\ req'[s].pc = "done" /\ req'[s].res = "driver"
        /\ req[s].old # None /\ ~Present(req[s].old))
       => /\ instances'[req[s].id].status = "error"
          /\ ~(/\ instances'[req[s].id].status = "running"
               /\ instances'[req[s].id].cid = req[s].old)]_vars

\* C35: the --tensor-parallel-size of the container a create has made is the
\* smaller of the requested size and the number of detected GPUs, and is not
\* more than the GPUs shown to the container.
C35_TensorParallelClamped ==
  \A s \in Slots :
    (/\ req[s].op = "vcreate" /\ req[s].made
     /\ Present(req[s].cid)
     /\ containers[req[s].cid].tp # 0)
    => /\ containers[req[s].cid].tp = Min(req[s].tps, Len(gpuInfo))
       /\ containers[req[s].cid].tp <= VisibleGPUs(containers[req[s].cid].gpu)

\* C36: at no time are two vendor queries in progress: a caller that arrives
\* before the first discovery has finished, or during a refresh, starts none.
C36_OneDiscoveryAtATime ==
  Cardinality({s \in Slots : req[s].pc = "detect"}) <= 1

\* the reservation of port p belongs to a stored instance of either kind
\* whose row names that port
LiveReservation(p) ==
  /\ ports[p] # Free
  /\ \/ instances[ports[p]] # NoRow /\ instances[ports[p]].port = p
     \/ ollama[ports[p]] # NoRow /\ ollama[ports[p]].port = p

\* C37: no step taken while a reconcile pass is running deletes or changes
\* the port reservation of a stored vLLM or Ollama instance.
C37_CleanupKeepsLiveReservations ==
  [][(\E s \in Slots : /\ req[s].op = "reconcile"
                       /\ req[s].pc \notin {"idle", "done"})
     => \A p \in PortSet : LiveReservation(p) => ports'[p] = ports[p]]_vars

\* C38: when the remove of an Ollama instance removes its container, no other
\* stored Ollama record names that container.
C38_RemoveKeepsSharedContainer ==
  [][\A s \in Slots :
       (/\ req[s].op = "oremove" /\ req[s].pc = "rm_docker"
        /\ Present(req[s].old)
        /\ containers'[req[s].old] = NoCont)
       => \A i \in Stored(ollama) \ {req[s].id} : ollama[i].cid # req[s].old]_vars

\* C39: the port of every stored record whose container exists is the host
\* port that container binds.
C39_RecordPortIsContainerPort ==
  /\ \A i \in Stored(instances) :
       (instances[i].cid # None /\ Present(instances[i].cid))
       => instances[i].port = containers[instances[i].cid].port
  /\ \A i \in Stored(ollama) :
       (ollama[i].cid # None /\ Present(ollama[i].cid))
       => ollama[i].port = containers[ollama[i].cid].port

\* C40: when onProgress does not throw and the stream ends, onProgress was
\* called with every record of the body once and in order, and finalStatus is
\* set exactly when the body held a success record, however the body was cut
\* into chunks.
C40_EveryRecordDeliveredOnce ==
  \A s \in Slots :
    (/\ req[s].op = "pullstream" /\ req[s].pc = "done"
     /\ ~req[s].threw
     /\ req[s].up.ending = "end")
    => /\ req[s].got = req[s].up.frames
       /\ req[s].final <=> HasSuccess(req[s].up)

====
